---- MODULE Spec2Model ----
(***************************************************************************)
(* Adjudication pipeline of the backstory-consistency checker:             *)
(*   agents/base.py        BaseAgent.extract_judgment (judgment parser)    *)
(*   agents/prosecutor.py  ProsecutorAgent.analyze_claim                   *)
(*   agents/defense.py     DefenseAgent.analyze_claim                      *)
(*   agents/judge.py       JudgeAgent.deliberate                           *)
(*   reasoning/debate.py   DebateOrchestrator                              *)
(*   reasoning/constraints.py  ConstraintTracker                           *)
(*   scoring/scorer.py     BackstoryScorer                                 *)
(*                                                                         *)
(* Representation.  A Python str is a sequence of one-character strings.   *)
(* A generator result (Optional[str]) is a record [some, text]; None is    *)
(* [some |-> FALSE].  A character is a one-character string when it is     *)
(* printable ASCII other than the grave accent, one of the escapes \t \n   *)
(* \f \r, and otherwise "U+" followed by its code point in four to six     *)
(* hexadecimal digits ("U+00A0", "U+0060").  A float confidence is the     *)
(* decimal [neg, int, frac] of the digits that repr() prints for it,       *)
(* without leading zeros in int and without trailing zeros in frac;        *)
(* float() and the sums, halves and hundredths of floats round to the      *)
(* nearest binary64 float as the interpreter does.  A retrieval similarity *)
(* s is the integer s * ConfScale.  A scoring weight w is the integer      *)
(* w * WeightScale, with WeightScale a power of two so that the binary     *)
(* floating point sums of the code are exact on the modelled values.       *)
(***************************************************************************)
EXTENDS Integers, Sequences, FiniteSets, TLC

(***************************************************************************)
(* Characters and the Unicode tables of the interpreter                    *)
(* (Python 3.11, Unicode 14.0)                                             *)
(***************************************************************************)
LowerChars ==
    <<"a","b","c","d","e","f","g","h","i","j","k","l","m",
      "n","o","p","q","r","s","t","u","v","w","x","y","z">>

UpperChars ==
    <<"A","B","C","D","E","F","G","H","I","J","K","L","M",
      "N","O","P","Q","R","S","T","U","V","W","X","Y","Z">>

DigitChars ==
    <<"0","1","2","3","4","5","6","7","8","9">>

\* the characters c with c.isspace(): those that str.strip() removes
WhiteSpace ==
    {
      "\t", "\n", "U+000B", "\f", "\r", "U+001C", "U+001D", "U+001E",
      "U+001F", " ", "U+0085", "U+00A0", "U+1680", "U+2000", "U+2001", "U+2002",
      "U+2003", "U+2004", "U+2005", "U+2006", "U+2007", "U+2008", "U+2009", "U+200A",
      "U+2028", "U+2029", "U+202F", "U+205F", "U+3000"
    }

\* every character c with c.upper() # c, and c.upper()
UpperTable ==
    <<
      <<"a", <<"A">>>>, <<"b", <<"B">>>>, <<"c", <<"C">>>>, <<"d", <<"D">>>>,
      <<"e", <<"E">>>>, <<"f", <<"F">>>>, <<"g", <<"G">>>>, <<"h", <<"H">>>>,
      <<"i", <<"I">>>>, <<"j", <<"J">>>>, <<"k", <<"K">>>>, <<"l", <<"L">>>>,
      <<"m", <<"M">>>>, <<"n", <<"N">>>>, <<"o", <<"O">>>>, <<"p", <<"P">>>>,
      <<"q", <<"Q">>>>, <<"r", <<"R">>>>, <<"s", <<"S">>>>, <<"t", <<"T">>>>,
      <<"u", <<"U">>>>, <<"v", <<"V">>>>, <<"w", <<"W">>>>, <<"x", <<"X">>>>,
      <<"y", <<"Y">>>>, <<"z", <<"Z">>>>, <<"U+00B5", <<"U+039C">>>>, <<"U+00DF", <<"S","S">>>>,
      <<"U+00E0", <<"U+00C0">>>>, <<"U+00E1", <<"U+00C1">>>>, <<"U+00E2", <<"U+00C2">>>>, <<"U+00E3", <<"U+00C3">>>>,
      <<"U+00E4", <<"U+00C4">>>>, <<"U+00E5", <<"U+00C5">>>>, <<"U+00E6", <<"U+00C6">>>>, <<"U+00E7", <<"U+00C7">>>>,
      <<"U+00E8", <<"U+00C8">>>>, <<"U+00E9", <<"U+00C9">>>>, <<"U+00EA", <<"U+00CA">>>>, <<"U+00EB", <<"U+00CB">>>>,
      <<"U+00EC", <<"U+00CC">>>>, <<"U+00ED", <<"U+00CD">>>>, <<"U+00EE", <<"U+00CE">>>>, <<"U+00EF", <<"U+00CF">>>>,
      <<"U+00F0", <<"U+00D0">>>>, <<"U+00F1", <<"U+00D1">>>>, <<"U+00F2", <<"U+00D2">>>>, <<"U+00F3", <<"U+00D3">>>>,
      <<"U+00F4", <<"U+00D4">>>>, <<"U+00F5", <<"U+00D5">>>>, <<"U+00F6", <<"U+00D6">>>>, <<"U+00F8", <<"U+00D8">>>>,
      <<"U+00F9", <<"U+00D9">>>>, <<"U+00FA", <<"U+00DA">>>>, <<"U+00FB", <<"U+00DB">>>>, <<"U+00FC", <<"U+00DC">>>>,
      <<"U+00FD", <<"U+00DD">>>>, <<"U+00FE", <<"U+00DE">>>>, <<"U+00FF", <<"U+0178">>>>, <<"U+0101", <<"U+0100">>>>,
      <<"U+0103", <<"U+0102">>>>, <<"U+0105", <<"U+0104">>>>, <<"U+0107", <<"U+0106">>>>, <<"U+0109", <<"U+0108">>>>,
      <<"U+010B", <<"U+010A">>>>, <<"U+010D", <<"U+010C">>>>, <<"U+010F", <<"U+010E">>>>, <<"U+0111", <<"U+0110">>>>,
      <<"U+0113", <<"U+0112">>>>, <<"U+0115", <<"U+0114">>>>, <<"U+0117", <<"U+0116">>>>, <<"U+0119", <<"U+0118">>>>,
      <<"U+011B", <<"U+011A">>>>, <<"U+011D", <<"U+011C">>>>, <<"U+011F", <<"U+011E">>>>, <<"U+0121", <<"U+0120">>>>,
      <<"U+0123", <<"U+0122">>>>, <<"U+0125", <<"U+0124">>>>, <<"U+0127", <<"U+0126">>>>, <<"U+0129", <<"U+0128">>>>,
      <<"U+012B", <<"U+012A">>>>, <<"U+012D", <<"U+012C">>>>, <<"U+012F", <<"U+012E">>>>, <<"U+0131", <<"I">>>>,
      <<"U+0133", <<"U+0132">>>>, <<"U+0135", <<"U+0134">>>>, <<"U+0137", <<"U+0136">>>>, <<"U+013A", <<"U+0139">>>>,
      <<"U+013C", <<"U+013B">>>>, <<"U+013E", <<"U+013D">>>>, <<"U+0140", <<"U+013F">>>>, <<"U+0142", <<"U+0141">>>>,
      <<"U+0144", <<"U+0143">>>>, <<"U+0146", <<"U+0145">>>>, <<"U+0148", <<"U+0147">>>>, <<"U+0149", <<"U+02BC","N">>>>,
      <<"U+014B", <<"U+014A">>>>, <<"U+014D", <<"U+014C">>>>, <<"U+014F", <<"U+014E">>>>, <<"U+0151", <<"U+0150">>>>,
      <<"U+0153", <<"U+0152">>>>, <<"U+0155", <<"U+0154">>>>, <<"U+0157", <<"U+0156">>>>, <<"U+0159", <<"U+0158">>>>,
      <<"U+015B", <<"U+015A">>>>, <<"U+015D", <<"U+015C">>>>, <<"U+015F", <<"U+015E">>>>, <<"U+0161", <<"U+0160">>>>,
      <<"U+0163", <<"U+0162">>>>, <<"U+0165", <<"U+0164">>>>, <<"U+0167", <<"U+0166">>>>, <<"U+0169", <<"U+0168">>>>,
      <<"U+016B", <<"U+016A">>>>, <<"U+016D", <<"U+016C">>>>, <<"U+016F", <<"U+016E">>>>, <<"U+0171", <<"U+0170">>>>,
      <<"U+0173", <<"U+0172">>>>, <<"U+0175", <<"U+0174">>>>, <<"U+0177", <<"U+0176">>>>, <<"U+017A", <<"U+0179">>>>,
      <<"U+017C", <<"U+017B">>>>, <<"U+017E", <<"U+017D">>>>, <<"U+017F", <<"S">>>>, <<"U+0180", <<"U+0243">>>>,
      <<"U+0183", <<"U+0182">>>>, <<"U+0185", <<"U+0184">>>>, <<"U+0188", <<"U+0187">>>>, <<"U+018C", <<"U+018B">>>>,
      <<"U+0192", <<"U+0191">>>>, <<"U+0195", <<"U+01F6">>>>, <<"U+0199", <<"U+0198">>>>, <<"U+019A", <<"U+023D">>>>,
      <<"U+019E", <<"U+0220">>>>, <<"U+01A1", <<"U+01A0">>>>, <<"U+01A3", <<"U+01A2">>>>, <<"U+01A5", <<"U+01A4">>>>,
      <<"U+01A8", <<"U+01A7">>>>, <<"U+01AD", <<"U+01AC">>>>, <<"U+01B0", <<"U+01AF">>>>, <<"U+01B4", <<"U+01B3">>>>,
      <<"U+01B6", <<"U+01B5">>>>, <<"U+01B9", <<"U+01B8">>>>, <<"U+01BD", <<"U+01BC">>>>, <<"U+01BF", <<"U+01F7">>>>,
      <<"U+01C5", <<"U+01C4">>>>, <<"U+01C6", <<"U+01C4">>>>, <<"U+01C8", <<"U+01C7">>>>, <<"U+01C9", <<"U+01C7">>>>,
      <<"U+01CB", <<"U+01CA">>>>, <<"U+01CC", <<"U+01CA">>>>, <<"U+01CE", <<"U+01CD">>>>, <<"U+01D0", <<"U+01CF">>>>,
      <<"U+01D2", <<"U+01D1">>>>, <<"U+01D4", <<"U+01D3">>>>, <<"U+01D6", <<"U+01D5">>>>, <<"U+01D8", <<"U+01D7">>>>,
      <<"U+01DA", <<"U+01D9">>>>, <<"U+01DC", <<"U+01DB">>>>, <<"U+01DD", <<"U+018E">>>>, <<"U+01DF", <<"U+01DE">>>>,
      <<"U+01E1", <<"U+01E0">>>>, <<"U+01E3", <<"U+01E2">>>>, <<"U+01E5", <<"U+01E4">>>>, <<"U+01E7", <<"U+01E6">>>>,
      <<"U+01E9", <<"U+01E8">>>>, <<"U+01EB", <<"U+01EA">>>>, <<"U+01ED", <<"U+01EC">>>>, <<"U+01EF", <<"U+01EE">>>>,
      <<"U+01F0", <<"J","U+030C">>>>, <<"U+01F2", <<"U+01F1">>>>, <<"U+01F3", <<"U+01F1">>>>, <<"U+01F5", <<"U+01F4">>>>,
      <<"U+01F9", <<"U+01F8">>>>, <<"U+01FB", <<"U+01FA">>>>, <<"U+01FD", <<"U+01FC">>>>, <<"U+01FF", <<"U+01FE">>>>,
      <<"U+0201", <<"U+0200">>>>, <<"U+0203", <<"U+0202">>>>, <<"U+0205", <<"U+0204">>>>, <<"U+0207", <<"U+0206">>>>,
      <<"U+0209", <<"U+0208">>>>, <<"U+020B", <<"U+020A">>>>, <<"U+020D", <<"U+020C">>>>, <<"U+020F", <<"U+020E">>>>,
      <<"U+0211", <<"U+0210">>>>, <<"U+0213", <<"U+0212">>>>, <<"U+0215", <<"U+0214">>>>, <<"U+0217", <<"U+0216">>>>,
      <<"U+0219", <<"U+0218">>>>, <<"U+021B", <<"U+021A">>>>, <<"U+021D", <<"U+021C">>>>, <<"U+021F", <<"U+021E">>>>,
      <<"U+0223", <<"U+0222">>>>, <<"U+0225", <<"U+0224">>>>, <<"U+0227", <<"U+0226">>>>, <<"U+0229", <<"U+0228">>>>,
      <<"U+022B", <<"U+022A">>>>, <<"U+022D", <<"U+022C">>>>, <<"U+022F", <<"U+022E">>>>, <<"U+0231", <<"U+0230">>>>,
      <<"U+0233", <<"U+0232">>>>, <<"U+023C", <<"U+023B">>>>, <<"U+023F", <<"U+2C7E">>>>, <<"U+0240", <<"U+2C7F">>>>,
      <<"U+0242", <<"U+0241">>>>, <<"U+0247", <<"U+0246">>>>, <<"U+0249", <<"U+0248">>>>, <<"U+024B", <<"U+024A">>>>,
      <<"U+024D", <<"U+024C">>>>, <<"U+024F", <<"U+024E">>>>, <<"U+0250", <<"U+2C6F">>>>, <<"U+0251", <<"U+2C6D">>>>,
      <<"U+0252", <<"U+2C70">>>>, <<"U+0253", <<"U+0181">>>>, <<"U+0254", <<"U+0186">>>>, <<"U+0256", <<"U+0189">>>>,
      <<"U+0257", <<"U+018A">>>>, <<"U+0259", <<"U+018F">>>>, <<"U+025B", <<"U+0190">>>>, <<"U+025C", <<"U+A7AB">>>>,
      <<"U+0260", <<"U+0193">>>>, <<"U+0261", <<"U+A7AC">>>>, <<"U+0263", <<"U+0194">>>>, <<"U+0265", <<"U+A78D">>>>,
      <<"U+0266", <<"U+A7AA">>>>, <<"U+0268", <<"U+0197">>>>, <<"U+0269", <<"U+0196">>>>, <<"U+026A", <<"U+A7AE">>>>,
      <<"U+026B", <<"U+2C62">>>>, <<"U+026C", <<"U+A7AD">>>>, <<"U+026F", <<"U+019C">>>>, <<"U+0271", <<"U+2C6E">>>>,
      <<"U+0272", <<"U+019D">>>>, <<"U+0275", <<"U+019F">>>>, <<"U+027D", <<"U+2C64">>>>, <<"U+0280", <<"U+01A6">>>>,
      <<"U+0282", <<"U+A7C5">>>>, <<"U+0283", <<"U+01A9">>>>, <<"U+0287", <<"U+A7B1">>>>, <<"U+0288", <<"U+01AE">>>>,
      <<"U+0289", <<"U+0244">>>>, <<"U+028A", <<"U+01B1">>>>, <<"U+028B", <<"U+01B2">>>>, <<"U+028C", <<"U+0245">>>>,
      <<"U+0292", <<"U+01B7">>>>, <<"U+029D", <<"U+A7B2">>>>, <<"U+029E", <<"U+A7B0">>>>, <<"U+0345", <<"U+0399">>>>,
      <<"U+0371", <<"U+0370">>>>, <<"U+0373", <<"U+0372">>>>, <<"U+0377", <<"U+0376">>>>, <<"U+037B", <<"U+03FD">>>>,
      <<"U+037C", <<"U+03FE">>>>, <<"U+037D", <<"U+03FF">>>>, <<"U+0390", <<"U+0399","U+0308","U+0301">>>>, <<"U+03AC", <<"U+0386">>>>,
      <<"U+03AD", <<"U+0388">>>>, <<"U+03AE", <<"U+0389">>>>, <<"U+03AF", <<"U+038A">>>>, <<"U+03B0", <<"U+03A5","U+0308","U+0301">>>>,
      <<"U+03B1", <<"U+0391">>>>, <<"U+03B2", <<"U+0392">>>>, <<"U+03B3", <<"U+0393">>>>, <<"U+03B4", <<"U+0394">>>>,
      <<"U+03B5", <<"U+0395">>>>, <<"U+03B6", <<"U+0396">>>>, <<"U+03B7", <<"U+0397">>>>, <<"U+03B8", <<"U+0398">>>>,
      <<"U+03B9", <<"U+0399">>>>, <<"U+03BA", <<"U+039A">>>>, <<"U+03BB", <<"U+039B">>>>, <<"U+03BC", <<"U+039C">>>>,
      <<"U+03BD", <<"U+039D">>>>, <<"U+03BE", <<"U+039E">>>>, <<"U+03BF", <<"U+039F">>>>, <<"U+03C0", <<"U+03A0">>>>,
      <<"U+03C1", <<"U+03A1">>>>, <<"U+03C2", <<"U+03A3">>>>, <<"U+03C3", <<"U+03A3">>>>, <<"U+03C4", <<"U+03A4">>>>,
      <<"U+03C5", <<"U+03A5">>>>, <<"U+03C6", <<"U+03A6">>>>, <<"U+03C7", <<"U+03A7">>>>, <<"U+03C8", <<"U+03A8">>>>,
      <<"U+03C9", <<"U+03A9">>>>, <<"U+03CA", <<"U+03AA">>>>, <<"U+03CB", <<"U+03AB">>>>, <<"U+03CC", <<"U+038C">>>>,
      <<"U+03CD", <<"U+038E">>>>, <<"U+03CE", <<"U+038F">>>>, <<"U+03D0", <<"U+0392">>>>, <<"U+03D1", <<"U+0398">>>>,
      <<"U+03D5", <<"U+03A6">>>>, <<"U+03D6", <<"U+03A0">>>>, <<"U+03D7", <<"U+03CF">>>>, <<"U+03D9", <<"U+03D8">>>>,
      <<"U+03DB", <<"U+03DA">>>>, <<"U+03DD", <<"U+03DC">>>>, <<"U+03DF", <<"U+03DE">>>>, <<"U+03E1", <<"U+03E0">>>>,
      <<"U+03E3", <<"U+03E2">>>>, <<"U+03E5", <<"U+03E4">>>>, <<"U+03E7", <<"U+03E6">>>>, <<"U+03E9", <<"U+03E8">>>>,
      <<"U+03EB", <<"U+03EA">>>>, <<"U+03ED", <<"U+03EC">>>>, <<"U+03EF", <<"U+03EE">>>>, <<"U+03F0", <<"U+039A">>>>,
      <<"U+03F1", <<"U+03A1">>>>, <<"U+03F2", <<"U+03F9">>>>, <<"U+03F3", <<"U+037F">>>>, <<"U+03F5", <<"U+0395">>>>,
      <<"U+03F8", <<"U+03F7">>>>, <<"U+03FB", <<"U+03FA">>>>, <<"U+0430", <<"U+0410">>>>, <<"U+0431", <<"U+0411">>>>,
      <<"U+0432", <<"U+0412">>>>, <<"U+0433", <<"U+0413">>>>, <<"U+0434", <<"U+0414">>>>, <<"U+0435", <<"U+0415">>>>,
      <<"U+0436", <<"U+0416">>>>, <<"U+0437", <<"U+0417">>>>, <<"U+0438", <<"U+0418">>>>, <<"U+0439", <<"U+0419">>>>,
      <<"U+043A", <<"U+041A">>>>, <<"U+043B", <<"U+041B">>>>, <<"U+043C", <<"U+041C">>>>, <<"U+043D", <<"U+041D">>>>,
      <<"U+043E", <<"U+041E">>>>, <<"U+043F", <<"U+041F">>>>, <<"U+0440", <<"U+0420">>>>, <<"U+0441", <<"U+0421">>>>,
      <<"U+0442", <<"U+0422">>>>, <<"U+0443", <<"U+0423">>>>, <<"U+0444", <<"U+0424">>>>, <<"U+0445", <<"U+0425">>>>,
      <<"U+0446", <<"U+0426">>>>, <<"U+0447", <<"U+0427">>>>, <<"U+0448", <<"U+0428">>>>, <<"U+0449", <<"U+0429">>>>,
      <<"U+044A", <<"U+042A">>>>, <<"U+044B", <<"U+042B">>>>, <<"U+044C", <<"U+042C">>>>, <<"U+044D", <<"U+042D">>>>,
      <<"U+044E", <<"U+042E">>>>, <<"U+044F", <<"U+042F">>>>, <<"U+0450", <<"U+0400">>>>, <<"U+0451", <<"U+0401">>>>,
      <<"U+0452", <<"U+0402">>>>, <<"U+0453", <<"U+0403">>>>, <<"U+0454", <<"U+0404">>>>, <<"U+0455", <<"U+0405">>>>,
      <<"U+0456", <<"U+0406">>>>, <<"U+0457", <<"U+0407">>>>, <<"U+0458", <<"U+0408">>>>, <<"U+0459", <<"U+0409">>>>,
      <<"U+045A", <<"U+040A">>>>, <<"U+045B", <<"U+040B">>>>, <<"U+045C", <<"U+040C">>>>, <<"U+045D", <<"U+040D">>>>,
      <<"U+045E", <<"U+040E">>>>, <<"U+045F", <<"U+040F">>>>, <<"U+0461", <<"U+0460">>>>, <<"U+0463", <<"U+0462">>>>,
      <<"U+0465", <<"U+0464">>>>, <<"U+0467", <<"U+0466">>>>, <<"U+0469", <<"U+0468">>>>, <<"U+046B", <<"U+046A">>>>,
      <<"U+046D", <<"U+046C">>>>, <<"U+046F", <<"U+046E">>>>, <<"U+0471", <<"U+0470">>>>, <<"U+0473", <<"U+0472">>>>,
      <<"U+0475", <<"U+0474">>>>, <<"U+0477", <<"U+0476">>>>, <<"U+0479", <<"U+0478">>>>, <<"U+047B", <<"U+047A">>>>,
      <<"U+047D", <<"U+047C">>>>, <<"U+047F", <<"U+047E">>>>, <<"U+0481", <<"U+0480">>>>, <<"U+048B", <<"U+048A">>>>,
      <<"U+048D", <<"U+048C">>>>, <<"U+048F", <<"U+048E">>>>, <<"U+0491", <<"U+0490">>>>, <<"U+0493", <<"U+0492">>>>,
      <<"U+0495", <<"U+0494">>>>, <<"U+0497", <<"U+0496">>>>, <<"U+0499", <<"U+0498">>>>, <<"U+049B", <<"U+049A">>>>,
      <<"U+049D", <<"U+049C">>>>, <<"U+049F", <<"U+049E">>>>, <<"U+04A1", <<"U+04A0">>>>, <<"U+04A3", <<"U+04A2">>>>,
      <<"U+04A5", <<"U+04A4">>>>, <<"U+04A7", <<"U+04A6">>>>, <<"U+04A9", <<"U+04A8">>>>, <<"U+04AB", <<"U+04AA">>>>,
      <<"U+04AD", <<"U+04AC">>>>, <<"U+04AF", <<"U+04AE">>>>, <<"U+04B1", <<"U+04B0">>>>, <<"U+04B3", <<"U+04B2">>>>,
      <<"U+04B5", <<"U+04B4">>>>, <<"U+04B7", <<"U+04B6">>>>, <<"U+04B9", <<"U+04B8">>>>, <<"U+04BB", <<"U+04BA">>>>,
      <<"U+04BD", <<"U+04BC">>>>, <<"U+04BF", <<"U+04BE">>>>, <<"U+04C2", <<"U+04C1">>>>, <<"U+04C4", <<"U+04C3">>>>,
      <<"U+04C6", <<"U+04C5">>>>, <<"U+04C8", <<"U+04C7">>>>, <<"U+04CA", <<"U+04C9">>>>, <<"U+04CC", <<"U+04CB">>>>,
      <<"U+04CE", <<"U+04CD">>>>, <<"U+04CF", <<"U+04C0">>>>, <<"U+04D1", <<"U+04D0">>>>, <<"U+04D3", <<"U+04D2">>>>,
      <<"U+04D5", <<"U+04D4">>>>, <<"U+04D7", <<"U+04D6">>>>, <<"U+04D9", <<"U+04D8">>>>, <<"U+04DB", <<"U+04DA">>>>,
      <<"U+04DD", <<"U+04DC">>>>, <<"U+04DF", <<"U+04DE">>>>, <<"U+04E1", <<"U+04E0">>>>, <<"U+04E3", <<"U+04E2">>>>,
      <<"U+04E5", <<"U+04E4">>>>, <<"U+04E7", <<"U+04E6">>>>, <<"U+04E9", <<"U+04E8">>>>, <<"U+04EB", <<"U+04EA">>>>,
      <<"U+04ED", <<"U+04EC">>>>, <<"U+04EF", <<"U+04EE">>>>, <<"U+04F1", <<"U+04F0">>>>, <<"U+04F3", <<"U+04F2">>>>,
      <<"U+04F5", <<"U+04F4">>>>, <<"U+04F7", <<"U+04F6">>>>, <<"U+04F9", <<"U+04F8">>>>, <<"U+04FB", <<"U+04FA">>>>,
      <<"U+04FD", <<"U+04FC">>>>, <<"U+04FF", <<"U+04FE">>>>, <<"U+0501", <<"U+0500">>>>, <<"U+0503", <<"U+0502">>>>,
      <<"U+0505", <<"U+0504">>>>, <<"U+0507", <<"U+0506">>>>, <<"U+0509", <<"U+0508">>>>, <<"U+050B", <<"U+050A">>>>,
      <<"U+050D", <<"U+050C">>>>, <<"U+050F", <<"U+050E">>>>, <<"U+0511", <<"U+0510">>>>, <<"U+0513", <<"U+0512">>>>,
      <<"U+0515", <<"U+0514">>>>, <<"U+0517", <<"U+0516">>>>, <<"U+0519", <<"U+0518">>>>, <<"U+051B", <<"U+051A">>>>,
      <<"U+051D", <<"U+051C">>>>, <<"U+051F", <<"U+051E">>>>, <<"U+0521", <<"U+0520">>>>, <<"U+0523", <<"U+0522">>>>,
      <<"U+0525", <<"U+0524">>>>, <<"U+0527", <<"U+0526">>>>, <<"U+0529", <<"U+0528">>>>, <<"U+052B", <<"U+052A">>>>,
      <<"U+052D", <<"U+052C">>>>, <<"U+052F", <<"U+052E">>>>, <<"U+0561", <<"U+0531">>>>, <<"U+0562", <<"U+0532">>>>,
      <<"U+0563", <<"U+0533">>>>, <<"U+0564", <<"U+0534">>>>, <<"U+0565", <<"U+0535">>>>, <<"U+0566", <<"U+0536">>>>,
      <<"U+0567", <<"U+0537">>>>, <<"U+0568", <<"U+0538">>>>, <<"U+0569", <<"U+0539">>>>, <<"U+056A", <<"U+053A">>>>,
      <<"U+056B", <<"U+053B">>>>, <<"U+056C", <<"U+053C">>>>, <<"U+056D", <<"U+053D">>>>, <<"U+056E", <<"U+053E">>>>,
      <<"U+056F", <<"U+053F">>>>, <<"U+0570", <<"U+0540">>>>, <<"U+0571", <<"U+0541">>>>, <<"U+0572", <<"U+0542">>>>,
      <<"U+0573", <<"U+0543">>>>, <<"U+0574", <<"U+0544">>>>, <<"U+0575", <<"U+0545">>>>, <<"U+0576", <<"U+0546">>>>,
      <<"U+0577", <<"U+0547">>>>, <<"U+0578", <<"U+0548">>>>, <<"U+0579", <<"U+0549">>>>, <<"U+057A", <<"U+054A">>>>,
      <<"U+057B", <<"U+054B">>>>, <<"U+057C", <<"U+054C">>>>, <<"U+057D", <<"U+054D">>>>, <<"U+057E", <<"U+054E">>>>,
      <<"U+057F", <<"U+054F">>>>, <<"U+0580", <<"U+0550">>>>, <<"U+0581", <<"U+0551">>>>, <<"U+0582", <<"U+0552">>>>,
      <<"U+0583", <<"U+0553">>>>, <<"U+0584", <<"U+0554">>>>, <<"U+0585", <<"U+0555">>>>, <<"U+0586", <<"U+0556">>>>,
      <<"U+0587", <<"U+0535","U+0552">>>>, <<"U+10D0", <<"U+1C90">>>>, <<"U+10D1", <<"U+1C91">>>>, <<"U+10D2", <<"U+1C92">>>>,
      <<"U+10D3", <<"U+1C93">>>>, <<"U+10D4", <<"U+1C94">>>>, <<"U+10D5", <<"U+1C95">>>>, <<"U+10D6", <<"U+1C96">>>>,
      <<"U+10D7", <<"U+1C97">>>>, <<"U+10D8", <<"U+1C98">>>>, <<"U+10D9", <<"U+1C99">>>>, <<"U+10DA", <<"U+1C9A">>>>,
      <<"U+10DB", <<"U+1C9B">>>>, <<"U+10DC", <<"U+1C9C">>>>, <<"U+10DD", <<"U+1C9D">>>>, <<"U+10DE", <<"U+1C9E">>>>,
      <<"U+10DF", <<"U+1C9F">>>>, <<"U+10E0", <<"U+1CA0">>>>, <<"U+10E1", <<"U+1CA1">>>>, <<"U+10E2", <<"U+1CA2">>>>,
      <<"U+10E3", <<"U+1CA3">>>>, <<"U+10E4", <<"U+1CA4">>>>, <<"U+10E5", <<"U+1CA5">>>>, <<"U+10E6", <<"U+1CA6">>>>,
      <<"U+10E7", <<"U+1CA7">>>>, <<"U+10E8", <<"U+1CA8">>>>, <<"U+10E9", <<"U+1CA9">>>>, <<"U+10EA", <<"U+1CAA">>>>,
      <<"U+10EB", <<"U+1CAB">>>>, <<"U+10EC", <<"U+1CAC">>>>, <<"U+10ED", <<"U+1CAD">>>>, <<"U+10EE", <<"U+1CAE">>>>,
      <<"U+10EF", <<"U+1CAF">>>>, <<"U+10F0", <<"U+1CB0">>>>, <<"U+10F1", <<"U+1CB1">>>>, <<"U+10F2", <<"U+1CB2">>>>,
      <<"U+10F3", <<"U+1CB3">>>>, <<"U+10F4", <<"U+1CB4">>>>, <<"U+10F5", <<"U+1CB5">>>>, <<"U+10F6", <<"U+1CB6">>>>,
      <<"U+10F7", <<"U+1CB7">>>>, <<"U+10F8", <<"U+1CB8">>>>, <<"U+10F9", <<"U+1CB9">>>>, <<"U+10FA", <<"U+1CBA">>>>,
      <<"U+10FD", <<"U+1CBD">>>>, <<"U+10FE", <<"U+1CBE">>>>, <<"U+10FF", <<"U+1CBF">>>>, <<"U+13F8", <<"U+13F0">>>>,
      <<"U+13F9", <<"U+13F1">>>>, <<"U+13FA", <<"U+13F2">>>>, <<"U+13FB", <<"U+13F3">>>>, <<"U+13FC", <<"U+13F4">>>>,
      <<"U+13FD", <<"U+13F5">>>>, <<"U+1C80", <<"U+0412">>>>, <<"U+1C81", <<"U+0414">>>>, <<"U+1C82", <<"U+041E">>>>,
      <<"U+1C83", <<"U+0421">>>>, <<"U+1C84", <<"U+0422">>>>, <<"U+1C85", <<"U+0422">>>>, <<"U+1C86", <<"U+042A">>>>,
      <<"U+1C87", <<"U+0462">>>>, <<"U+1C88", <<"U+A64A">>>>, <<"U+1D79", <<"U+A77D">>>>, <<"U+1D7D", <<"U+2C63">>>>,
      <<"U+1D8E", <<"U+A7C6">>>>, <<"U+1E01", <<"U+1E00">>>>, <<"U+1E03", <<"U+1E02">>>>, <<"U+1E05", <<"U+1E04">>>>,
      <<"U+1E07", <<"U+1E06">>>>, <<"U+1E09", <<"U+1E08">>>>, <<"U+1E0B", <<"U+1E0A">>>>, <<"U+1E0D", <<"U+1E0C">>>>,
      <<"U+1E0F", <<"U+1E0E">>>>, <<"U+1E11", <<"U+1E10">>>>, <<"U+1E13", <<"U+1E12">>>>, <<"U+1E15", <<"U+1E14">>>>,
      <<"U+1E17", <<"U+1E16">>>>, <<"U+1E19", <<"U+1E18">>>>, <<"U+1E1B", <<"U+1E1A">>>>, <<"U+1E1D", <<"U+1E1C">>>>,
      <<"U+1E1F", <<"U+1E1E">>>>, <<"U+1E21", <<"U+1E20">>>>, <<"U+1E23", <<"U+1E22">>>>, <<"U+1E25", <<"U+1E24">>>>,
      <<"U+1E27", <<"U+1E26">>>>, <<"U+1E29", <<"U+1E28">>>>, <<"U+1E2B", <<"U+1E2A">>>>, <<"U+1E2D", <<"U+1E2C">>>>,
      <<"U+1E2F", <<"U+1E2E">>>>, <<"U+1E31", <<"U+1E30">>>>, <<"U+1E33", <<"U+1E32">>>>, <<"U+1E35", <<"U+1E34">>>>,
      <<"U+1E37", <<"U+1E36">>>>, <<"U+1E39", <<"U+1E38">>>>, <<"U+1E3B", <<"U+1E3A">>>>, <<"U+1E3D", <<"U+1E3C">>>>,
      <<"U+1E3F", <<"U+1E3E">>>>, <<"U+1E41", <<"U+1E40">>>>, <<"U+1E43", <<"U+1E42">>>>, <<"U+1E45", <<"U+1E44">>>>,
      <<"U+1E47", <<"U+1E46">>>>, <<"U+1E49", <<"U+1E48">>>>, <<"U+1E4B", <<"U+1E4A">>>>, <<"U+1E4D", <<"U+1E4C">>>>,
      <<"U+1E4F", <<"U+1E4E">>>>, <<"U+1E51", <<"U+1E50">>>>, <<"U+1E53", <<"U+1E52">>>>, <<"U+1E55", <<"U+1E54">>>>,
      <<"U+1E57", <<"U+1E56">>>>, <<"U+1E59", <<"U+1E58">>>>, <<"U+1E5B", <<"U+1E5A">>>>, <<"U+1E5D", <<"U+1E5C">>>>,
      <<"U+1E5F", <<"U+1E5E">>>>, <<"U+1E61", <<"U+1E60">>>>, <<"U+1E63", <<"U+1E62">>>>, <<"U+1E65", <<"U+1E64">>>>,
      <<"U+1E67", <<"U+1E66">>>>, <<"U+1E69", <<"U+1E68">>>>, <<"U+1E6B", <<"U+1E6A">>>>, <<"U+1E6D", <<"U+1E6C">>>>,
      <<"U+1E6F", <<"U+1E6E">>>>, <<"U+1E71", <<"U+1E70">>>>, <<"U+1E73", <<"U+1E72">>>>, <<"U+1E75", <<"U+1E74">>>>,
      <<"U+1E77", <<"U+1E76">>>>, <<"U+1E79", <<"U+1E78">>>>, <<"U+1E7B", <<"U+1E7A">>>>, <<"U+1E7D", <<"U+1E7C">>>>,
      <<"U+1E7F", <<"U+1E7E">>>>, <<"U+1E81", <<"U+1E80">>>>, <<"U+1E83", <<"U+1E82">>>>, <<"U+1E85", <<"U+1E84">>>>,
      <<"U+1E87", <<"U+1E86">>>>, <<"U+1E89", <<"U+1E88">>>>, <<"U+1E8B", <<"U+1E8A">>>>, <<"U+1E8D", <<"U+1E8C">>>>,
      <<"U+1E8F", <<"U+1E8E">>>>, <<"U+1E91", <<"U+1E90">>>>, <<"U+1E93", <<"U+1E92">>>>, <<"U+1E95", <<"U+1E94">>>>,
      <<"U+1E96", <<"H","U+0331">>>>, <<"U+1E97", <<"T","U+0308">>>>, <<"U+1E98", <<"W","U+030A">>>>, <<"U+1E99", <<"Y","U+030A">>>>,
      <<"U+1E9A", <<"A","U+02BE">>>>, <<"U+1E9B", <<"U+1E60">>>>, <<"U+1EA1", <<"U+1EA0">>>>, <<"U+1EA3", <<"U+1EA2">>>>,
      <<"U+1EA5", <<"U+1EA4">>>>, <<"U+1EA7", <<"U+1EA6">>>>, <<"U+1EA9", <<"U+1EA8">>>>, <<"U+1EAB", <<"U+1EAA">>>>,
      <<"U+1EAD", <<"U+1EAC">>>>, <<"U+1EAF", <<"U+1EAE">>>>, <<"U+1EB1", <<"U+1EB0">>>>, <<"U+1EB3", <<"U+1EB2">>>>,
      <<"U+1EB5", <<"U+1EB4">>>>, <<"U+1EB7", <<"U+1EB6">>>>, <<"U+1EB9", <<"U+1EB8">>>>, <<"U+1EBB", <<"U+1EBA">>>>,
      <<"U+1EBD", <<"U+1EBC">>>>, <<"U+1EBF", <<"U+1EBE">>>>, <<"U+1EC1", <<"U+1EC0">>>>, <<"U+1EC3", <<"U+1EC2">>>>,
      <<"U+1EC5", <<"U+1EC4">>>>, <<"U+1EC7", <<"U+1EC6">>>>, <<"U+1EC9", <<"U+1EC8">>>>, <<"U+1ECB", <<"U+1ECA">>>>,
      <<"U+1ECD", <<"U+1ECC">>>>, <<"U+1ECF", <<"U+1ECE">>>>, <<"U+1ED1", <<"U+1ED0">>>>, <<"U+1ED3", <<"U+1ED2">>>>,
      <<"U+1ED5", <<"U+1ED4">>>>, <<"U+1ED7", <<"U+1ED6">>>>, <<"U+1ED9", <<"U+1ED8">>>>, <<"U+1EDB", <<"U+1EDA">>>>,
      <<"U+1EDD", <<"U+1EDC">>>>, <<"U+1EDF", <<"U+1EDE">>>>, <<"U+1EE1", <<"U+1EE0">>>>, <<"U+1EE3", <<"U+1EE2">>>>,
      <<"U+1EE5", <<"U+1EE4">>>>, <<"U+1EE7", <<"U+1EE6">>>>, <<"U+1EE9", <<"U+1EE8">>>>, <<"U+1EEB", <<"U+1EEA">>>>,
      <<"U+1EED", <<"U+1EEC">>>>, <<"U+1EEF", <<"U+1EEE">>>>, <<"U+1EF1", <<"U+1EF0">>>>, <<"U+1EF3", <<"U+1EF2">>>>,
      <<"U+1EF5", <<"U+1EF4">>>>, <<"U+1EF7", <<"U+1EF6">>>>, <<"U+1EF9", <<"U+1EF8">>>>, <<"U+1EFB", <<"U+1EFA">>>>,
      <<"U+1EFD", <<"U+1EFC">>>>, <<"U+1EFF", <<"U+1EFE">>>>, <<"U+1F00", <<"U+1F08">>>>, <<"U+1F01", <<"U+1F09">>>>,
      <<"U+1F02", <<"U+1F0A">>>>, <<"U+1F03", <<"U+1F0B">>>>, <<"U+1F04", <<"U+1F0C">>>>, <<"U+1F05", <<"U+1F0D">>>>,
      <<"U+1F06", <<"U+1F0E">>>>, <<"U+1F07", <<"U+1F0F">>>>, <<"U+1F10", <<"U+1F18">>>>, <<"U+1F11", <<"U+1F19">>>>,
      <<"U+1F12", <<"U+1F1A">>>>, <<"U+1F13", <<"U+1F1B">>>>, <<"U+1F14", <<"U+1F1C">>>>, <<"U+1F15", <<"U+1F1D">>>>,
      <<"U+1F20", <<"U+1F28">>>>, <<"U+1F21", <<"U+1F29">>>>, <<"U+1F22", <<"U+1F2A">>>>, <<"U+1F23", <<"U+1F2B">>>>,
      <<"U+1F24", <<"U+1F2C">>>>, <<"U+1F25", <<"U+1F2D">>>>, <<"U+1F26", <<"U+1F2E">>>>, <<"U+1F27", <<"U+1F2F">>>>,
      <<"U+1F30", <<"U+1F38">>>>, <<"U+1F31", <<"U+1F39">>>>, <<"U+1F32", <<"U+1F3A">>>>, <<"U+1F33", <<"U+1F3B">>>>,
      <<"U+1F34", <<"U+1F3C">>>>, <<"U+1F35", <<"U+1F3D">>>>, <<"U+1F36", <<"U+1F3E">>>>, <<"U+1F37", <<"U+1F3F">>>>,
      <<"U+1F40", <<"U+1F48">>>>, <<"U+1F41", <<"U+1F49">>>>, <<"U+1F42", <<"U+1F4A">>>>, <<"U+1F43", <<"U+1F4B">>>>,
      <<"U+1F44", <<"U+1F4C">>>>, <<"U+1F45", <<"U+1F4D">>>>, <<"U+1F50", <<"U+03A5","U+0313">>>>, <<"U+1F51", <<"U+1F59">>>>,
      <<"U+1F52", <<"U+03A5","U+0313","U+0300">>>>, <<"U+1F53", <<"U+1F5B">>>>, <<"U+1F54", <<"U+03A5","U+0313","U+0301">>>>, <<"U+1F55", <<"U+1F5D">>>>,
      <<"U+1F56", <<"U+03A5","U+0313","U+0342">>>>, <<"U+1F57", <<"U+1F5F">>>>, <<"U+1F60", <<"U+1F68">>>>, <<"U+1F61", <<"U+1F69">>>>,
      <<"U+1F62", <<"U+1F6A">>>>, <<"U+1F63", <<"U+1F6B">>>>, <<"U+1F64", <<"U+1F6C">>>>, <<"U+1F65", <<"U+1F6D">>>>,
      <<"U+1F66", <<"U+1F6E">>>>, <<"U+1F67", <<"U+1F6F">>>>, <<"U+1F70", <<"U+1FBA">>>>, <<"U+1F71", <<"U+1FBB">>>>,
      <<"U+1F72", <<"U+1FC8">>>>, <<"U+1F73", <<"U+1FC9">>>>, <<"U+1F74", <<"U+1FCA">>>>, <<"U+1F75", <<"U+1FCB">>>>,
      <<"U+1F76", <<"U+1FDA">>>>, <<"U+1F77", <<"U+1FDB">>>>, <<"U+1F78", <<"U+1FF8">>>>, <<"U+1F79", <<"U+1FF9">>>>,
      <<"U+1F7A", <<"U+1FEA">>>>, <<"U+1F7B", <<"U+1FEB">>>>, <<"U+1F7C", <<"U+1FFA">>>>, <<"U+1F7D", <<"U+1FFB">>>>,
      <<"U+1F80", <<"U+1F08","U+0399">>>>, <<"U+1F81", <<"U+1F09","U+0399">>>>, <<"U+1F82", <<"U+1F0A","U+0399">>>>, <<"U+1F83", <<"U+1F0B","U+0399">>>>,
      <<"U+1F84", <<"U+1F0C","U+0399">>>>, <<"U+1F85", <<"U+1F0D","U+0399">>>>, <<"U+1F86", <<"U+1F0E","U+0399">>>>, <<"U+1F87", <<"U+1F0F","U+0399">>>>,
      <<"U+1F88", <<"U+1F08","U+0399">>>>, <<"U+1F89", <<"U+1F09","U+0399">>>>, <<"U+1F8A", <<"U+1F0A","U+0399">>>>, <<"U+1F8B", <<"U+1F0B","U+0399">>>>,
      <<"U+1F8C", <<"U+1F0C","U+0399">>>>, <<"U+1F8D", <<"U+1F0D","U+0399">>>>, <<"U+1F8E", <<"U+1F0E","U+0399">>>>, <<"U+1F8F", <<"U+1F0F","U+0399">>>>,
      <<"U+1F90", <<"U+1F28","U+0399">>>>, <<"U+1F91", <<"U+1F29","U+0399">>>>, <<"U+1F92", <<"U+1F2A","U+0399">>>>, <<"U+1F93", <<"U+1F2B","U+0399">>>>,
      <<"U+1F94", <<"U+1F2C","U+0399">>>>, <<"U+1F95", <<"U+1F2D","U+0399">>>>, <<"U+1F96", <<"U+1F2E","U+0399">>>>, <<"U+1F97", <<"U+1F2F","U+0399">>>>,
      <<"U+1F98", <<"U+1F28","U+0399">>>>, <<"U+1F99", <<"U+1F29","U+0399">>>>, <<"U+1F9A", <<"U+1F2A","U+0399">>>>, <<"U+1F9B", <<"U+1F2B","U+0399">>>>,
      <<"U+1F9C", <<"U+1F2C","U+0399">>>>, <<"U+1F9D", <<"U+1F2D","U+0399">>>>, <<"U+1F9E", <<"U+1F2E","U+0399">>>>, <<"U+1F9F", <<"U+1F2F","U+0399">>>>,
      <<"U+1FA0", <<"U+1F68","U+0399">>>>, <<"U+1FA1", <<"U+1F69","U+0399">>>>, <<"U+1FA2", <<"U+1F6A","U+0399">>>>, <<"U+1FA3", <<"U+1F6B","U+0399">>>>,
      <<"U+1FA4", <<"U+1F6C","U+0399">>>>, <<"U+1FA5", <<"U+1F6D","U+0399">>>>, <<"U+1FA6", <<"U+1F6E","U+0399">>>>, <<"U+1FA7", <<"U+1F6F","U+0399">>>>,
      <<"U+1FA8", <<"U+1F68","U+0399">>>>, <<"U+1FA9", <<"U+1F69","U+0399">>>>, <<"U+1FAA", <<"U+1F6A","U+0399">>>>, <<"U+1FAB", <<"U+1F6B","U+0399">>>>,
      <<"U+1FAC", <<"U+1F6C","U+0399">>>>, <<"U+1FAD", <<"U+1F6D","U+0399">>>>, <<"U+1FAE", <<"U+1F6E","U+0399">>>>, <<"U+1FAF", <<"U+1F6F","U+0399">>>>,
      <<"U+1FB0", <<"U+1FB8">>>>, <<"U+1FB1", <<"U+1FB9">>>>, <<"U+1FB2", <<"U+1FBA","U+0399">>>>, <<"U+1FB3", <<"U+0391","U+0399">>>>,
      <<"U+1FB4", <<"U+0386","U+0399">>>>, <<"U+1FB6", <<"U+0391","U+0342">>>>, <<"U+1FB7", <<"U+0391","U+0342","U+0399">>>>, <<"U+1FBC", <<"U+0391","U+0399">>>>,
      <<"U+1FBE", <<"U+0399">>>>, <<"U+1FC2", <<"U+1FCA","U+0399">>>>, <<"U+1FC3", <<"U+0397","U+0399">>>>, <<"U+1FC4", <<"U+0389","U+0399">>>>,
      <<"U+1FC6", <<"U+0397","U+0342">>>>, <<"U+1FC7", <<"U+0397","U+0342","U+0399">>>>, <<"U+1FCC", <<"U+0397","U+0399">>>>, <<"U+1FD0", <<"U+1FD8">>>>,
      <<"U+1FD1", <<"U+1FD9">>>>, <<"U+1FD2", <<"U+0399","U+0308","U+0300">>>>, <<"U+1FD3", <<"U+0399","U+0308","U+0301">>>>, <<"U+1FD6", <<"U+0399","U+0342">>>>,
      <<"U+1FD7", <<"U+0399","U+0308","U+0342">>>>, <<"U+1FE0", <<"U+1FE8">>>>, <<"U+1FE1", <<"U+1FE9">>>>, <<"U+1FE2", <<"U+03A5","U+0308","U+0300">>>>,
      <<"U+1FE3", <<"U+03A5","U+0308","U+0301">>>>, <<"U+1FE4", <<"U+03A1","U+0313">>>>, <<"U+1FE5", <<"U+1FEC">>>>, <<"U+1FE6", <<"U+03A5","U+0342">>>>,
      <<"U+1FE7", <<"U+03A5","U+0308","U+0342">>>>, <<"U+1FF2", <<"U+1FFA","U+0399">>>>, <<"U+1FF3", <<"U+03A9","U+0399">>>>, <<"U+1FF4", <<"U+038F","U+0399">>>>,
      <<"U+1FF6", <<"U+03A9","U+0342">>>>, <<"U+1FF7", <<"U+03A9","U+0342","U+0399">>>>, <<"U+1FFC", <<"U+03A9","U+0399">>>>, <<"U+214E", <<"U+2132">>>>,
      <<"U+2170", <<"U+2160">>>>, <<"U+2171", <<"U+2161">>>>, <<"U+2172", <<"U+2162">>>>, <<"U+2173", <<"U+2163">>>>,
      <<"U+2174", <<"U+2164">>>>, <<"U+2175", <<"U+2165">>>>, <<"U+2176", <<"U+2166">>>>, <<"U+2177", <<"U+2167">>>>,
      <<"U+2178", <<"U+2168">>>>, <<"U+2179", <<"U+2169">>>>, <<"U+217A", <<"U+216A">>>>, <<"U+217B", <<"U+216B">>>>,
      <<"U+217C", <<"U+216C">>>>, <<"U+217D", <<"U+216D">>>>, <<"U+217E", <<"U+216E">>>>, <<"U+217F", <<"U+216F">>>>,
      <<"U+2184", <<"U+2183">>>>, <<"U+24D0", <<"U+24B6">>>>, <<"U+24D1", <<"U+24B7">>>>, <<"U+24D2", <<"U+24B8">>>>,
      <<"U+24D3", <<"U+24B9">>>>, <<"U+24D4", <<"U+24BA">>>>, <<"U+24D5", <<"U+24BB">>>>, <<"U+24D6", <<"U+24BC">>>>,
      <<"U+24D7", <<"U+24BD">>>>, <<"U+24D8", <<"U+24BE">>>>, <<"U+24D9", <<"U+24BF">>>>, <<"U+24DA", <<"U+24C0">>>>,
      <<"U+24DB", <<"U+24C1">>>>, <<"U+24DC", <<"U+24C2">>>>, <<"U+24DD", <<"U+24C3">>>>, <<"U+24DE", <<"U+24C4">>>>,
      <<"U+24DF", <<"U+24C5">>>>, <<"U+24E0", <<"U+24C6">>>>, <<"U+24E1", <<"U+24C7">>>>, <<"U+24E2", <<"U+24C8">>>>,
      <<"U+24E3", <<"U+24C9">>>>, <<"U+24E4", <<"U+24CA">>>>, <<"U+24E5", <<"U+24CB">>>>, <<"U+24E6", <<"U+24CC">>>>,
      <<"U+24E7", <<"U+24CD">>>>, <<"U+24E8", <<"U+24CE">>>>, <<"U+24E9", <<"U+24CF">>>>, <<"U+2C30", <<"U+2C00">>>>,
      <<"U+2C31", <<"U+2C01">>>>, <<"U+2C32", <<"U+2C02">>>>, <<"U+2C33", <<"U+2C03">>>>, <<"U+2C34", <<"U+2C04">>>>,
      <<"U+2C35", <<"U+2C05">>>>, <<"U+2C36", <<"U+2C06">>>>, <<"U+2C37", <<"U+2C07">>>>, <<"U+2C38", <<"U+2C08">>>>,
      <<"U+2C39", <<"U+2C09">>>>, <<"U+2C3A", <<"U+2C0A">>>>, <<"U+2C3B", <<"U+2C0B">>>>, <<"U+2C3C", <<"U+2C0C">>>>,
      <<"U+2C3D", <<"U+2C0D">>>>, <<"U+2C3E", <<"U+2C0E">>>>, <<"U+2C3F", <<"U+2C0F">>>>, <<"U+2C40", <<"U+2C10">>>>,
      <<"U+2C41", <<"U+2C11">>>>, <<"U+2C42", <<"U+2C12">>>>, <<"U+2C43", <<"U+2C13">>>>, <<"U+2C44", <<"U+2C14">>>>,
      <<"U+2C45", <<"U+2C15">>>>, <<"U+2C46", <<"U+2C16">>>>, <<"U+2C47", <<"U+2C17">>>>, <<"U+2C48", <<"U+2C18">>>>,
      <<"U+2C49", <<"U+2C19">>>>, <<"U+2C4A", <<"U+2C1A">>>>, <<"U+2C4B", <<"U+2C1B">>>>, <<"U+2C4C", <<"U+2C1C">>>>,
      <<"U+2C4D", <<"U+2C1D">>>>, <<"U+2C4E", <<"U+2C1E">>>>, <<"U+2C4F", <<"U+2C1F">>>>, <<"U+2C50", <<"U+2C20">>>>,
      <<"U+2C51", <<"U+2C21">>>>, <<"U+2C52", <<"U+2C22">>>>, <<"U+2C53", <<"U+2C23">>>>, <<"U+2C54", <<"U+2C24">>>>,
      <<"U+2C55", <<"U+2C25">>>>, <<"U+2C56", <<"U+2C26">>>>, <<"U+2C57", <<"U+2C27">>>>, <<"U+2C58", <<"U+2C28">>>>,
      <<"U+2C59", <<"U+2C29">>>>, <<"U+2C5A", <<"U+2C2A">>>>, <<"U+2C5B", <<"U+2C2B">>>>, <<"U+2C5C", <<"U+2C2C">>>>,
      <<"U+2C5D", <<"U+2C2D">>>>, <<"U+2C5E", <<"U+2C2E">>>>, <<"U+2C5F", <<"U+2C2F">>>>, <<"U+2C61", <<"U+2C60">>>>,
      <<"U+2C65", <<"U+023A">>>>, <<"U+2C66", <<"U+023E">>>>, <<"U+2C68", <<"U+2C67">>>>, <<"U+2C6A", <<"U+2C69">>>>,
      <<"U+2C6C", <<"U+2C6B">>>>, <<"U+2C73", <<"U+2C72">>>>, <<"U+2C76", <<"U+2C75">>>>, <<"U+2C81", <<"U+2C80">>>>,
      <<"U+2C83", <<"U+2C82">>>>, <<"U+2C85", <<"U+2C84">>>>, <<"U+2C87", <<"U+2C86">>>>, <<"U+2C89", <<"U+2C88">>>>,
      <<"U+2C8B", <<"U+2C8A">>>>, <<"U+2C8D", <<"U+2C8C">>>>, <<"U+2C8F", <<"U+2C8E">>>>, <<"U+2C91", <<"U+2C90">>>>,
      <<"U+2C93", <<"U+2C92">>>>, <<"U+2C95", <<"U+2C94">>>>, <<"U+2C97", <<"U+2C96">>>>, <<"U+2C99", <<"U+2C98">>>>,
      <<"U+2C9B", <<"U+2C9A">>>>, <<"U+2C9D", <<"U+2C9C">>>>, <<"U+2C9F", <<"U+2C9E">>>>, <<"U+2CA1", <<"U+2CA0">>>>,
      <<"U+2CA3", <<"U+2CA2">>>>, <<"U+2CA5", <<"U+2CA4">>>>, <<"U+2CA7", <<"U+2CA6">>>>, <<"U+2CA9", <<"U+2CA8">>>>,
      <<"U+2CAB", <<"U+2CAA">>>>, <<"U+2CAD", <<"U+2CAC">>>>, <<"U+2CAF", <<"U+2CAE">>>>, <<"U+2CB1", <<"U+2CB0">>>>,
      <<"U+2CB3", <<"U+2CB2">>>>, <<"U+2CB5", <<"U+2CB4">>>>, <<"U+2CB7", <<"U+2CB6">>>>, <<"U+2CB9", <<"U+2CB8">>>>,
      <<"U+2CBB", <<"U+2CBA">>>>, <<"U+2CBD", <<"U+2CBC">>>>, <<"U+2CBF", <<"U+2CBE">>>>, <<"U+2CC1", <<"U+2CC0">>>>,
      <<"U+2CC3", <<"U+2CC2">>>>, <<"U+2CC5", <<"U+2CC4">>>>, <<"U+2CC7", <<"U+2CC6">>>>, <<"U+2CC9", <<"U+2CC8">>>>,
      <<"U+2CCB", <<"U+2CCA">>>>, <<"U+2CCD", <<"U+2CCC">>>>, <<"U+2CCF", <<"U+2CCE">>>>, <<"U+2CD1", <<"U+2CD0">>>>,
      <<"U+2CD3", <<"U+2CD2">>>>, <<"U+2CD5", <<"U+2CD4">>>>, <<"U+2CD7", <<"U+2CD6">>>>, <<"U+2CD9", <<"U+2CD8">>>>,
      <<"U+2CDB", <<"U+2CDA">>>>, <<"U+2CDD", <<"U+2CDC">>>>, <<"U+2CDF", <<"U+2CDE">>>>, <<"U+2CE1", <<"U+2CE0">>>>,
      <<"U+2CE3", <<"U+2CE2">>>>, <<"U+2CEC", <<"U+2CEB">>>>, <<"U+2CEE", <<"U+2CED">>>>, <<"U+2CF3", <<"U+2CF2">>>>,
      <<"U+2D00", <<"U+10A0">>>>, <<"U+2D01", <<"U+10A1">>>>, <<"U+2D02", <<"U+10A2">>>>, <<"U+2D03", <<"U+10A3">>>>,
      <<"U+2D04", <<"U+10A4">>>>, <<"U+2D05", <<"U+10A5">>>>, <<"U+2D06", <<"U+10A6">>>>, <<"U+2D07", <<"U+10A7">>>>,
      <<"U+2D08", <<"U+10A8">>>>, <<"U+2D09", <<"U+10A9">>>>, <<"U+2D0A", <<"U+10AA">>>>, <<"U+2D0B", <<"U+10AB">>>>,
      <<"U+2D0C", <<"U+10AC">>>>, <<"U+2D0D", <<"U+10AD">>>>, <<"U+2D0E", <<"U+10AE">>>>, <<"U+2D0F", <<"U+10AF">>>>,
      <<"U+2D10", <<"U+10B0">>>>, <<"U+2D11", <<"U+10B1">>>>, <<"U+2D12", <<"U+10B2">>>>, <<"U+2D13", <<"U+10B3">>>>,
      <<"U+2D14", <<"U+10B4">>>>, <<"U+2D15", <<"U+10B5">>>>, <<"U+2D16", <<"U+10B6">>>>, <<"U+2D17", <<"U+10B7">>>>,
      <<"U+2D18", <<"U+10B8">>>>, <<"U+2D19", <<"U+10B9">>>>, <<"U+2D1A", <<"U+10BA">>>>, <<"U+2D1B", <<"U+10BB">>>>,
      <<"U+2D1C", <<"U+10BC">>>>, <<"U+2D1D", <<"U+10BD">>>>, <<"U+2D1E", <<"U+10BE">>>>, <<"U+2D1F", <<"U+10BF">>>>,
      <<"U+2D20", <<"U+10C0">>>>, <<"U+2D21", <<"U+10C1">>>>, <<"U+2D22", <<"U+10C2">>>>, <<"U+2D23", <<"U+10C3">>>>,
      <<"U+2D24", <<"U+10C4">>>>, <<"U+2D25", <<"U+10C5">>>>, <<"U+2D27", <<"U+10C7">>>>, <<"U+2D2D", <<"U+10CD">>>>,
      <<"U+A641", <<"U+A640">>>>, <<"U+A643", <<"U+A642">>>>, <<"U+A645", <<"U+A644">>>>, <<"U+A647", <<"U+A646">>>>,
      <<"U+A649", <<"U+A648">>>>, <<"U+A64B", <<"U+A64A">>>>, <<"U+A64D", <<"U+A64C">>>>, <<"U+A64F", <<"U+A64E">>>>,
      <<"U+A651", <<"U+A650">>>>, <<"U+A653", <<"U+A652">>>>, <<"U+A655", <<"U+A654">>>>, <<"U+A657", <<"U+A656">>>>,
      <<"U+A659", <<"U+A658">>>>, <<"U+A65B", <<"U+A65A">>>>, <<"U+A65D", <<"U+A65C">>>>, <<"U+A65F", <<"U+A65E">>>>,
      <<"U+A661", <<"U+A660">>>>, <<"U+A663", <<"U+A662">>>>, <<"U+A665", <<"U+A664">>>>, <<"U+A667", <<"U+A666">>>>,
      <<"U+A669", <<"U+A668">>>>, <<"U+A66B", <<"U+A66A">>>>, <<"U+A66D", <<"U+A66C">>>>, <<"U+A681", <<"U+A680">>>>,
      <<"U+A683", <<"U+A682">>>>, <<"U+A685", <<"U+A684">>>>, <<"U+A687", <<"U+A686">>>>, <<"U+A689", <<"U+A688">>>>,
      <<"U+A68B", <<"U+A68A">>>>, <<"U+A68D", <<"U+A68C">>>>, <<"U+A68F", <<"U+A68E">>>>, <<"U+A691", <<"U+A690">>>>,
      <<"U+A693", <<"U+A692">>>>, <<"U+A695", <<"U+A694">>>>, <<"U+A697", <<"U+A696">>>>, <<"U+A699", <<"U+A698">>>>,
      <<"U+A69B", <<"U+A69A">>>>, <<"U+A723", <<"U+A722">>>>, <<"U+A725", <<"U+A724">>>>, <<"U+A727", <<"U+A726">>>>,
      <<"U+A729", <<"U+A728">>>>, <<"U+A72B", <<"U+A72A">>>>, <<"U+A72D", <<"U+A72C">>>>, <<"U+A72F", <<"U+A72E">>>>,
      <<"U+A733", <<"U+A732">>>>, <<"U+A735", <<"U+A734">>>>, <<"U+A737", <<"U+A736">>>>, <<"U+A739", <<"U+A738">>>>,
      <<"U+A73B", <<"U+A73A">>>>, <<"U+A73D", <<"U+A73C">>>>, <<"U+A73F", <<"U+A73E">>>>, <<"U+A741", <<"U+A740">>>>,
      <<"U+A743", <<"U+A742">>>>, <<"U+A745", <<"U+A744">>>>, <<"U+A747", <<"U+A746">>>>, <<"U+A749", <<"U+A748">>>>,
      <<"U+A74B", <<"U+A74A">>>>, <<"U+A74D", <<"U+A74C">>>>, <<"U+A74F", <<"U+A74E">>>>, <<"U+A751", <<"U+A750">>>>,
      <<"U+A753", <<"U+A752">>>>, <<"U+A755", <<"U+A754">>>>, <<"U+A757", <<"U+A756">>>>, <<"U+A759", <<"U+A758">>>>,
      <<"U+A75B", <<"U+A75A">>>>, <<"U+A75D", <<"U+A75C">>>>, <<"U+A75F", <<"U+A75E">>>>, <<"U+A761", <<"U+A760">>>>,
      <<"U+A763", <<"U+A762">>>>, <<"U+A765", <<"U+A764">>>>, <<"U+A767", <<"U+A766">>>>, <<"U+A769", <<"U+A768">>>>,
      <<"U+A76B", <<"U+A76A">>>>, <<"U+A76D", <<"U+A76C">>>>, <<"U+A76F", <<"U+A76E">>>>, <<"U+A77A", <<"U+A779">>>>,
      <<"U+A77C", <<"U+A77B">>>>, <<"U+A77F", <<"U+A77E">>>>, <<"U+A781", <<"U+A780">>>>, <<"U+A783", <<"U+A782">>>>,
      <<"U+A785", <<"U+A784">>>>, <<"U+A787", <<"U+A786">>>>, <<"U+A78C", <<"U+A78B">>>>, <<"U+A791", <<"U+A790">>>>,
      <<"U+A793", <<"U+A792">>>>, <<"U+A794", <<"U+A7C4">>>>, <<"U+A797", <<"U+A796">>>>, <<"U+A799", <<"U+A798">>>>,
      <<"U+A79B", <<"U+A79A">>>>, <<"U+A79D", <<"U+A79C">>>>, <<"U+A79F", <<"U+A79E">>>>, <<"U+A7A1", <<"U+A7A0">>>>,
      <<"U+A7A3", <<"U+A7A2">>>>, <<"U+A7A5", <<"U+A7A4">>>>, <<"U+A7A7", <<"U+A7A6">>>>, <<"U+A7A9", <<"U+A7A8">>>>,
      <<"U+A7B5", <<"U+A7B4">>>>, <<"U+A7B7", <<"U+A7B6">>>>, <<"U+A7B9", <<"U+A7B8">>>>, <<"U+A7BB", <<"U+A7BA">>>>,
      <<"U+A7BD", <<"U+A7BC">>>>, <<"U+A7BF", <<"U+A7BE">>>>, <<"U+A7C1", <<"U+A7C0">>>>, <<"U+A7C3", <<"U+A7C2">>>>,
      <<"U+A7C8", <<"U+A7C7">>>>, <<"U+A7CA", <<"U+A7C9">>>>, <<"U+A7D1", <<"U+A7D0">>>>, <<"U+A7D7", <<"U+A7D6">>>>,
      <<"U+A7D9", <<"U+A7D8">>>>, <<"U+A7F6", <<"U+A7F5">>>>, <<"U+AB53", <<"U+A7B3">>>>, <<"U+AB70", <<"U+13A0">>>>,
      <<"U+AB71", <<"U+13A1">>>>, <<"U+AB72", <<"U+13A2">>>>, <<"U+AB73", <<"U+13A3">>>>, <<"U+AB74", <<"U+13A4">>>>,
      <<"U+AB75", <<"U+13A5">>>>, <<"U+AB76", <<"U+13A6">>>>, <<"U+AB77", <<"U+13A7">>>>, <<"U+AB78", <<"U+13A8">>>>,
      <<"U+AB79", <<"U+13A9">>>>, <<"U+AB7A", <<"U+13AA">>>>, <<"U+AB7B", <<"U+13AB">>>>, <<"U+AB7C", <<"U+13AC">>>>,
      <<"U+AB7D", <<"U+13AD">>>>, <<"U+AB7E", <<"U+13AE">>>>, <<"U+AB7F", <<"U+13AF">>>>, <<"U+AB80", <<"U+13B0">>>>,
      <<"U+AB81", <<"U+13B1">>>>, <<"U+AB82", <<"U+13B2">>>>, <<"U+AB83", <<"U+13B3">>>>, <<"U+AB84", <<"U+13B4">>>>,
      <<"U+AB85", <<"U+13B5">>>>, <<"U+AB86", <<"U+13B6">>>>, <<"U+AB87", <<"U+13B7">>>>, <<"U+AB88", <<"U+13B8">>>>,
      <<"U+AB89", <<"U+13B9">>>>, <<"U+AB8A", <<"U+13BA">>>>, <<"U+AB8B", <<"U+13BB">>>>, <<"U+AB8C", <<"U+13BC">>>>,
      <<"U+AB8D", <<"U+13BD">>>>, <<"U+AB8E", <<"U+13BE">>>>, <<"U+AB8F", <<"U+13BF">>>>, <<"U+AB90", <<"U+13C0">>>>,
      <<"U+AB91", <<"U+13C1">>>>, <<"U+AB92", <<"U+13C2">>>>, <<"U+AB93", <<"U+13C3">>>>, <<"U+AB94", <<"U+13C4">>>>,
      <<"U+AB95", <<"U+13C5">>>>, <<"U+AB96", <<"U+13C6">>>>, <<"U+AB97", <<"U+13C7">>>>, <<"U+AB98", <<"U+13C8">>>>,
      <<"U+AB99", <<"U+13C9">>>>, <<"U+AB9A", <<"U+13CA">>>>, <<"U+AB9B", <<"U+13CB">>>>, <<"U+AB9C", <<"U+13CC">>>>,
      <<"U+AB9D", <<"U+13CD">>>>, <<"U+AB9E", <<"U+13CE">>>>, <<"U+AB9F", <<"U+13CF">>>>, <<"U+ABA0", <<"U+13D0">>>>,
      <<"U+ABA1", <<"U+13D1">>>>, <<"U+ABA2", <<"U+13D2">>>>, <<"U+ABA3", <<"U+13D3">>>>, <<"U+ABA4", <<"U+13D4">>>>,
      <<"U+ABA5", <<"U+13D5">>>>, <<"U+ABA6", <<"U+13D6">>>>, <<"U+ABA7", <<"U+13D7">>>>, <<"U+ABA8", <<"U+13D8">>>>,
      <<"U+ABA9", <<"U+13D9">>>>, <<"U+ABAA", <<"U+13DA">>>>, <<"U+ABAB", <<"U+13DB">>>>, <<"U+ABAC", <<"U+13DC">>>>,
      <<"U+ABAD", <<"U+13DD">>>>, <<"U+ABAE", <<"U+13DE">>>>, <<"U+ABAF", <<"U+13DF">>>>, <<"U+ABB0", <<"U+13E0">>>>,
      <<"U+ABB1", <<"U+13E1">>>>, <<"U+ABB2", <<"U+13E2">>>>, <<"U+ABB3", <<"U+13E3">>>>, <<"U+ABB4", <<"U+13E4">>>>,
      <<"U+ABB5", <<"U+13E5">>>>, <<"U+ABB6", <<"U+13E6">>>>, <<"U+ABB7", <<"U+13E7">>>>, <<"U+ABB8", <<"U+13E8">>>>,
      <<"U+ABB9", <<"U+13E9">>>>, <<"U+ABBA", <<"U+13EA">>>>, <<"U+ABBB", <<"U+13EB">>>>, <<"U+ABBC", <<"U+13EC">>>>,
      <<"U+ABBD", <<"U+13ED">>>>, <<"U+ABBE", <<"U+13EE">>>>, <<"U+ABBF", <<"U+13EF">>>>, <<"U+FB00", <<"F","F">>>>,
      <<"U+FB01", <<"F","I">>>>, <<"U+FB02", <<"F","L">>>>, <<"U+FB03", <<"F","F","I">>>>, <<"U+FB04", <<"F","F","L">>>>,
      <<"U+FB05", <<"S","T">>>>, <<"U+FB06", <<"S","T">>>>, <<"U+FB13", <<"U+0544","U+0546">>>>, <<"U+FB14", <<"U+0544","U+0535">>>>,
      <<"U+FB15", <<"U+0544","U+053B">>>>, <<"U+FB16", <<"U+054E","U+0546">>>>, <<"U+FB17", <<"U+0544","U+053D">>>>, <<"U+FF41", <<"U+FF21">>>>,
      <<"U+FF42", <<"U+FF22">>>>, <<"U+FF43", <<"U+FF23">>>>, <<"U+FF44", <<"U+FF24">>>>, <<"U+FF45", <<"U+FF25">>>>,
      <<"U+FF46", <<"U+FF26">>>>, <<"U+FF47", <<"U+FF27">>>>, <<"U+FF48", <<"U+FF28">>>>, <<"U+FF49", <<"U+FF29">>>>,
      <<"U+FF4A", <<"U+FF2A">>>>, <<"U+FF4B", <<"U+FF2B">>>>, <<"U+FF4C", <<"U+FF2C">>>>, <<"U+FF4D", <<"U+FF2D">>>>,
      <<"U+FF4E", <<"U+FF2E">>>>, <<"U+FF4F", <<"U+FF2F">>>>, <<"U+FF50", <<"U+FF30">>>>, <<"U+FF51", <<"U+FF31">>>>,
      <<"U+FF52", <<"U+FF32">>>>, <<"U+FF53", <<"U+FF33">>>>, <<"U+FF54", <<"U+FF34">>>>, <<"U+FF55", <<"U+FF35">>>>,
      <<"U+FF56", <<"U+FF36">>>>, <<"U+FF57", <<"U+FF37">>>>, <<"U+FF58", <<"U+FF38">>>>, <<"U+FF59", <<"U+FF39">>>>,
      <<"U+FF5A", <<"U+FF3A">>>>, <<"U+10428", <<"U+10400">>>>, <<"U+10429", <<"U+10401">>>>, <<"U+1042A", <<"U+10402">>>>,
      <<"U+1042B", <<"U+10403">>>>, <<"U+1042C", <<"U+10404">>>>, <<"U+1042D", <<"U+10405">>>>, <<"U+1042E", <<"U+10406">>>>,
      <<"U+1042F", <<"U+10407">>>>, <<"U+10430", <<"U+10408">>>>, <<"U+10431", <<"U+10409">>>>, <<"U+10432", <<"U+1040A">>>>,
      <<"U+10433", <<"U+1040B">>>>, <<"U+10434", <<"U+1040C">>>>, <<"U+10435", <<"U+1040D">>>>, <<"U+10436", <<"U+1040E">>>>,
      <<"U+10437", <<"U+1040F">>>>, <<"U+10438", <<"U+10410">>>>, <<"U+10439", <<"U+10411">>>>, <<"U+1043A", <<"U+10412">>>>,
      <<"U+1043B", <<"U+10413">>>>, <<"U+1043C", <<"U+10414">>>>, <<"U+1043D", <<"U+10415">>>>, <<"U+1043E", <<"U+10416">>>>,
      <<"U+1043F", <<"U+10417">>>>, <<"U+10440", <<"U+10418">>>>, <<"U+10441", <<"U+10419">>>>, <<"U+10442", <<"U+1041A">>>>,
      <<"U+10443", <<"U+1041B">>>>, <<"U+10444", <<"U+1041C">>>>, <<"U+10445", <<"U+1041D">>>>, <<"U+10446", <<"U+1041E">>>>,
      <<"U+10447", <<"U+1041F">>>>, <<"U+10448", <<"U+10420">>>>, <<"U+10449", <<"U+10421">>>>, <<"U+1044A", <<"U+10422">>>>,
      <<"U+1044B", <<"U+10423">>>>, <<"U+1044C", <<"U+10424">>>>, <<"U+1044D", <<"U+10425">>>>, <<"U+1044E", <<"U+10426">>>>,
      <<"U+1044F", <<"U+10427">>>>, <<"U+104D8", <<"U+104B0">>>>, <<"U+104D9", <<"U+104B1">>>>, <<"U+104DA", <<"U+104B2">>>>,
      <<"U+104DB", <<"U+104B3">>>>, <<"U+104DC", <<"U+104B4">>>>, <<"U+104DD", <<"U+104B5">>>>, <<"U+104DE", <<"U+104B6">>>>,
      <<"U+104DF", <<"U+104B7">>>>, <<"U+104E0", <<"U+104B8">>>>, <<"U+104E1", <<"U+104B9">>>>, <<"U+104E2", <<"U+104BA">>>>,
      <<"U+104E3", <<"U+104BB">>>>, <<"U+104E4", <<"U+104BC">>>>, <<"U+104E5", <<"U+104BD">>>>, <<"U+104E6", <<"U+104BE">>>>,
      <<"U+104E7", <<"U+104BF">>>>, <<"U+104E8", <<"U+104C0">>>>, <<"U+104E9", <<"U+104C1">>>>, <<"U+104EA", <<"U+104C2">>>>,
      <<"U+104EB", <<"U+104C3">>>>, <<"U+104EC", <<"U+104C4">>>>, <<"U+104ED", <<"U+104C5">>>>, <<"U+104EE", <<"U+104C6">>>>,
      <<"U+104EF", <<"U+104C7">>>>, <<"U+104F0", <<"U+104C8">>>>, <<"U+104F1", <<"U+104C9">>>>, <<"U+104F2", <<"U+104CA">>>>,
      <<"U+104F3", <<"U+104CB">>>>, <<"U+104F4", <<"U+104CC">>>>, <<"U+104F5", <<"U+104CD">>>>, <<"U+104F6", <<"U+104CE">>>>,
      <<"U+104F7", <<"U+104CF">>>>, <<"U+104F8", <<"U+104D0">>>>, <<"U+104F9", <<"U+104D1">>>>, <<"U+104FA", <<"U+104D2">>>>,
      <<"U+104FB", <<"U+104D3">>>>, <<"U+10597", <<"U+10570">>>>, <<"U+10598", <<"U+10571">>>>, <<"U+10599", <<"U+10572">>>>,
      <<"U+1059A", <<"U+10573">>>>, <<"U+1059B", <<"U+10574">>>>, <<"U+1059C", <<"U+10575">>>>, <<"U+1059D", <<"U+10576">>>>,
      <<"U+1059E", <<"U+10577">>>>, <<"U+1059F", <<"U+10578">>>>, <<"U+105A0", <<"U+10579">>>>, <<"U+105A1", <<"U+1057A">>>>,
      <<"U+105A3", <<"U+1057C">>>>, <<"U+105A4", <<"U+1057D">>>>, <<"U+105A5", <<"U+1057E">>>>, <<"U+105A6", <<"U+1057F">>>>,
      <<"U+105A7", <<"U+10580">>>>, <<"U+105A8", <<"U+10581">>>>, <<"U+105A9", <<"U+10582">>>>, <<"U+105AA", <<"U+10583">>>>,
      <<"U+105AB", <<"U+10584">>>>, <<"U+105AC", <<"U+10585">>>>, <<"U+105AD", <<"U+10586">>>>, <<"U+105AE", <<"U+10587">>>>,
      <<"U+105AF", <<"U+10588">>>>, <<"U+105B0", <<"U+10589">>>>, <<"U+105B1", <<"U+1058A">>>>, <<"U+105B3", <<"U+1058C">>>>,
      <<"U+105B4", <<"U+1058D">>>>, <<"U+105B5", <<"U+1058E">>>>, <<"U+105B6", <<"U+1058F">>>>, <<"U+105B7", <<"U+10590">>>>,
      <<"U+105B8", <<"U+10591">>>>, <<"U+105B9", <<"U+10592">>>>, <<"U+105BB", <<"U+10594">>>>, <<"U+105BC", <<"U+10595">>>>,
      <<"U+10CC0", <<"U+10C80">>>>, <<"U+10CC1", <<"U+10C81">>>>, <<"U+10CC2", <<"U+10C82">>>>, <<"U+10CC3", <<"U+10C83">>>>,
      <<"U+10CC4", <<"U+10C84">>>>, <<"U+10CC5", <<"U+10C85">>>>, <<"U+10CC6", <<"U+10C86">>>>, <<"U+10CC7", <<"U+10C87">>>>,
      <<"U+10CC8", <<"U+10C88">>>>, <<"U+10CC9", <<"U+10C89">>>>, <<"U+10CCA", <<"U+10C8A">>>>, <<"U+10CCB", <<"U+10C8B">>>>,
      <<"U+10CCC", <<"U+10C8C">>>>, <<"U+10CCD", <<"U+10C8D">>>>, <<"U+10CCE", <<"U+10C8E">>>>, <<"U+10CCF", <<"U+10C8F">>>>,
      <<"U+10CD0", <<"U+10C90">>>>, <<"U+10CD1", <<"U+10C91">>>>, <<"U+10CD2", <<"U+10C92">>>>, <<"U+10CD3", <<"U+10C93">>>>,
      <<"U+10CD4", <<"U+10C94">>>>, <<"U+10CD5", <<"U+10C95">>>>, <<"U+10CD6", <<"U+10C96">>>>, <<"U+10CD7", <<"U+10C97">>>>,
      <<"U+10CD8", <<"U+10C98">>>>, <<"U+10CD9", <<"U+10C99">>>>, <<"U+10CDA", <<"U+10C9A">>>>, <<"U+10CDB", <<"U+10C9B">>>>,
      <<"U+10CDC", <<"U+10C9C">>>>, <<"U+10CDD", <<"U+10C9D">>>>, <<"U+10CDE", <<"U+10C9E">>>>, <<"U+10CDF", <<"U+10C9F">>>>,
      <<"U+10CE0", <<"U+10CA0">>>>, <<"U+10CE1", <<"U+10CA1">>>>, <<"U+10CE2", <<"U+10CA2">>>>, <<"U+10CE3", <<"U+10CA3">>>>,
      <<"U+10CE4", <<"U+10CA4">>>>, <<"U+10CE5", <<"U+10CA5">>>>, <<"U+10CE6", <<"U+10CA6">>>>, <<"U+10CE7", <<"U+10CA7">>>>,
      <<"U+10CE8", <<"U+10CA8">>>>, <<"U+10CE9", <<"U+10CA9">>>>, <<"U+10CEA", <<"U+10CAA">>>>, <<"U+10CEB", <<"U+10CAB">>>>,
      <<"U+10CEC", <<"U+10CAC">>>>, <<"U+10CED", <<"U+10CAD">>>>, <<"U+10CEE", <<"U+10CAE">>>>, <<"U+10CEF", <<"U+10CAF">>>>,
      <<"U+10CF0", <<"U+10CB0">>>>, <<"U+10CF1", <<"U+10CB1">>>>, <<"U+10CF2", <<"U+10CB2">>>>, <<"U+118C0", <<"U+118A0">>>>,
      <<"U+118C1", <<"U+118A1">>>>, <<"U+118C2", <<"U+118A2">>>>, <<"U+118C3", <<"U+118A3">>>>, <<"U+118C4", <<"U+118A4">>>>,
      <<"U+118C5", <<"U+118A5">>>>, <<"U+118C6", <<"U+118A6">>>>, <<"U+118C7", <<"U+118A7">>>>, <<"U+118C8", <<"U+118A8">>>>,
      <<"U+118C9", <<"U+118A9">>>>, <<"U+118CA", <<"U+118AA">>>>, <<"U+118CB", <<"U+118AB">>>>, <<"U+118CC", <<"U+118AC">>>>,
      <<"U+118CD", <<"U+118AD">>>>, <<"U+118CE", <<"U+118AE">>>>, <<"U+118CF", <<"U+118AF">>>>, <<"U+118D0", <<"U+118B0">>>>,
      <<"U+118D1", <<"U+118B1">>>>, <<"U+118D2", <<"U+118B2">>>>, <<"U+118D3", <<"U+118B3">>>>, <<"U+118D4", <<"U+118B4">>>>,
      <<"U+118D5", <<"U+118B5">>>>, <<"U+118D6", <<"U+118B6">>>>, <<"U+118D7", <<"U+118B7">>>>, <<"U+118D8", <<"U+118B8">>>>,
      <<"U+118D9", <<"U+118B9">>>>, <<"U+118DA", <<"U+118BA">>>>, <<"U+118DB", <<"U+118BB">>>>, <<"U+118DC", <<"U+118BC">>>>,
      <<"U+118DD", <<"U+118BD">>>>, <<"U+118DE", <<"U+118BE">>>>, <<"U+118DF", <<"U+118BF">>>>, <<"U+16E60", <<"U+16E40">>>>,
      <<"U+16E61", <<"U+16E41">>>>, <<"U+16E62", <<"U+16E42">>>>, <<"U+16E63", <<"U+16E43">>>>, <<"U+16E64", <<"U+16E44">>>>,
      <<"U+16E65", <<"U+16E45">>>>, <<"U+16E66", <<"U+16E46">>>>, <<"U+16E67", <<"U+16E47">>>>, <<"U+16E68", <<"U+16E48">>>>,
      <<"U+16E69", <<"U+16E49">>>>, <<"U+16E6A", <<"U+16E4A">>>>, <<"U+16E6B", <<"U+16E4B">>>>, <<"U+16E6C", <<"U+16E4C">>>>,
      <<"U+16E6D", <<"U+16E4D">>>>, <<"U+16E6E", <<"U+16E4E">>>>, <<"U+16E6F", <<"U+16E4F">>>>, <<"U+16E70", <<"U+16E50">>>>,
      <<"U+16E71", <<"U+16E51">>>>, <<"U+16E72", <<"U+16E52">>>>, <<"U+16E73", <<"U+16E53">>>>, <<"U+16E74", <<"U+16E54">>>>,
      <<"U+16E75", <<"U+16E55">>>>, <<"U+16E76", <<"U+16E56">>>>, <<"U+16E77", <<"U+16E57">>>>, <<"U+16E78", <<"U+16E58">>>>,
      <<"U+16E79", <<"U+16E59">>>>, <<"U+16E7A", <<"U+16E5A">>>>, <<"U+16E7B", <<"U+16E5B">>>>, <<"U+16E7C", <<"U+16E5C">>>>,
      <<"U+16E7D", <<"U+16E5D">>>>, <<"U+16E7E", <<"U+16E5E">>>>, <<"U+16E7F", <<"U+16E5F">>>>, <<"U+1E922", <<"U+1E900">>>>,
      <<"U+1E923", <<"U+1E901">>>>, <<"U+1E924", <<"U+1E902">>>>, <<"U+1E925", <<"U+1E903">>>>, <<"U+1E926", <<"U+1E904">>>>,
      <<"U+1E927", <<"U+1E905">>>>, <<"U+1E928", <<"U+1E906">>>>, <<"U+1E929", <<"U+1E907">>>>, <<"U+1E92A", <<"U+1E908">>>>,
      <<"U+1E92B", <<"U+1E909">>>>, <<"U+1E92C", <<"U+1E90A">>>>, <<"U+1E92D", <<"U+1E90B">>>>, <<"U+1E92E", <<"U+1E90C">>>>,
      <<"U+1E92F", <<"U+1E90D">>>>, <<"U+1E930", <<"U+1E90E">>>>, <<"U+1E931", <<"U+1E90F">>>>, <<"U+1E932", <<"U+1E910">>>>,
      <<"U+1E933", <<"U+1E911">>>>, <<"U+1E934", <<"U+1E912">>>>, <<"U+1E935", <<"U+1E913">>>>, <<"U+1E936", <<"U+1E914">>>>,
      <<"U+1E937", <<"U+1E915">>>>, <<"U+1E938", <<"U+1E916">>>>, <<"U+1E939", <<"U+1E917">>>>, <<"U+1E93A", <<"U+1E918">>>>,
      <<"U+1E93B", <<"U+1E919">>>>, <<"U+1E93C", <<"U+1E91A">>>>, <<"U+1E93D", <<"U+1E91B">>>>, <<"U+1E93E", <<"U+1E91C">>>>,
      <<"U+1E93F", <<"U+1E91D">>>>, <<"U+1E940", <<"U+1E91E">>>>, <<"U+1E941", <<"U+1E91F">>>>, <<"U+1E942", <<"U+1E920">>>>,
      <<"U+1E943", <<"U+1E921">>>>
    >>

\* every character c but U+03A3 with c.lower() # c, and c.lower()
LowerTable ==
    <<
      <<"A", <<"a">>>>, <<"B", <<"b">>>>, <<"C", <<"c">>>>, <<"D", <<"d">>>>,
      <<"E", <<"e">>>>, <<"F", <<"f">>>>, <<"G", <<"g">>>>, <<"H", <<"h">>>>,
      <<"I", <<"i">>>>, <<"J", <<"j">>>>, <<"K", <<"k">>>>, <<"L", <<"l">>>>,
      <<"M", <<"m">>>>, <<"N", <<"n">>>>, <<"O", <<"o">>>>, <<"P", <<"p">>>>,
      <<"Q", <<"q">>>>, <<"R", <<"r">>>>, <<"S", <<"s">>>>, <<"T", <<"t">>>>,
      <<"U", <<"u">>>>, <<"V", <<"v">>>>, <<"W", <<"w">>>>, <<"X", <<"x">>>>,
      <<"Y", <<"y">>>>, <<"Z", <<"z">>>>, <<"U+00C0", <<"U+00E0">>>>, <<"U+00C1", <<"U+00E1">>>>,
      <<"U+00C2", <<"U+00E2">>>>, <<"U+00C3", <<"U+00E3">>>>, <<"U+00C4", <<"U+00E4">>>>, <<"U+00C5", <<"U+00E5">>>>,
      <<"U+00C6", <<"U+00E6">>>>, <<"U+00C7", <<"U+00E7">>>>, <<"U+00C8", <<"U+00E8">>>>, <<"U+00C9", <<"U+00E9">>>>,
      <<"U+00CA", <<"U+00EA">>>>, <<"U+00CB", <<"U+00EB">>>>, <<"U+00CC", <<"U+00EC">>>>, <<"U+00CD", <<"U+00ED">>>>,
      <<"U+00CE", <<"U+00EE">>>>, <<"U+00CF", <<"U+00EF">>>>, <<"U+00D0", <<"U+00F0">>>>, <<"U+00D1", <<"U+00F1">>>>,
      <<"U+00D2", <<"U+00F2">>>>, <<"U+00D3", <<"U+00F3">>>>, <<"U+00D4", <<"U+00F4">>>>, <<"U+00D5", <<"U+00F5">>>>,
      <<"U+00D6", <<"U+00F6">>>>, <<"U+00D8", <<"U+00F8">>>>, <<"U+00D9", <<"U+00F9">>>>, <<"U+00DA", <<"U+00FA">>>>,
      <<"U+00DB", <<"U+00FB">>>>, <<"U+00DC", <<"U+00FC">>>>, <<"U+00DD", <<"U+00FD">>>>, <<"U+00DE", <<"U+00FE">>>>,
      <<"U+0100", <<"U+0101">>>>, <<"U+0102", <<"U+0103">>>>, <<"U+0104", <<"U+0105">>>>, <<"U+0106", <<"U+0107">>>>,
      <<"U+0108", <<"U+0109">>>>, <<"U+010A", <<"U+010B">>>>, <<"U+010C", <<"U+010D">>>>, <<"U+010E", <<"U+010F">>>>,
      <<"U+0110", <<"U+0111">>>>, <<"U+0112", <<"U+0113">>>>, <<"U+0114", <<"U+0115">>>>, <<"U+0116", <<"U+0117">>>>,
      <<"U+0118", <<"U+0119">>>>, <<"U+011A", <<"U+011B">>>>, <<"U+011C", <<"U+011D">>>>, <<"U+011E", <<"U+011F">>>>,
      <<"U+0120", <<"U+0121">>>>, <<"U+0122", <<"U+0123">>>>, <<"U+0124", <<"U+0125">>>>, <<"U+0126", <<"U+0127">>>>,
      <<"U+0128", <<"U+0129">>>>, <<"U+012A", <<"U+012B">>>>, <<"U+012C", <<"U+012D">>>>, <<"U+012E", <<"U+012F">>>>,
      <<"U+0130", <<"i","U+0307">>>>, <<"U+0132", <<"U+0133">>>>, <<"U+0134", <<"U+0135">>>>, <<"U+0136", <<"U+0137">>>>,
      <<"U+0139", <<"U+013A">>>>, <<"U+013B", <<"U+013C">>>>, <<"U+013D", <<"U+013E">>>>, <<"U+013F", <<"U+0140">>>>,
      <<"U+0141", <<"U+0142">>>>, <<"U+0143", <<"U+0144">>>>, <<"U+0145", <<"U+0146">>>>, <<"U+0147", <<"U+0148">>>>,
      <<"U+014A", <<"U+014B">>>>, <<"U+014C", <<"U+014D">>>>, <<"U+014E", <<"U+014F">>>>, <<"U+0150", <<"U+0151">>>>,
      <<"U+0152", <<"U+0153">>>>, <<"U+0154", <<"U+0155">>>>, <<"U+0156", <<"U+0157">>>>, <<"U+0158", <<"U+0159">>>>,
      <<"U+015A", <<"U+015B">>>>, <<"U+015C", <<"U+015D">>>>, <<"U+015E", <<"U+015F">>>>, <<"U+0160", <<"U+0161">>>>,
      <<"U+0162", <<"U+0163">>>>, <<"U+0164", <<"U+0165">>>>, <<"U+0166", <<"U+0167">>>>, <<"U+0168", <<"U+0169">>>>,
      <<"U+016A", <<"U+016B">>>>, <<"U+016C", <<"U+016D">>>>, <<"U+016E", <<"U+016F">>>>, <<"U+0170", <<"U+0171">>>>,
      <<"U+0172", <<"U+0173">>>>, <<"U+0174", <<"U+0175">>>>, <<"U+0176", <<"U+0177">>>>, <<"U+0178", <<"U+00FF">>>>,
      <<"U+0179", <<"U+017A">>>>, <<"U+017B", <<"U+017C">>>>, <<"U+017D", <<"U+017E">>>>, <<"U+0181", <<"U+0253">>>>,
      <<"U+0182", <<"U+0183">>>>, <<"U+0184", <<"U+0185">>>>, <<"U+0186", <<"U+0254">>>>, <<"U+0187", <<"U+0188">>>>,
      <<"U+0189", <<"U+0256">>>>, <<"U+018A", <<"U+0257">>>>, <<"U+018B", <<"U+018C">>>>, <<"U+018E", <<"U+01DD">>>>,
      <<"U+018F", <<"U+0259">>>>, <<"U+0190", <<"U+025B">>>>, <<"U+0191", <<"U+0192">>>>, <<"U+0193", <<"U+0260">>>>,
      <<"U+0194", <<"U+0263">>>>, <<"U+0196", <<"U+0269">>>>, <<"U+0197", <<"U+0268">>>>, <<"U+0198", <<"U+0199">>>>,
      <<"U+019C", <<"U+026F">>>>, <<"U+019D", <<"U+0272">>>>, <<"U+019F", <<"U+0275">>>>, <<"U+01A0", <<"U+01A1">>>>,
      <<"U+01A2", <<"U+01A3">>>>, <<"U+01A4", <<"U+01A5">>>>, <<"U+01A6", <<"U+0280">>>>, <<"U+01A7", <<"U+01A8">>>>,
      <<"U+01A9", <<"U+0283">>>>, <<"U+01AC", <<"U+01AD">>>>, <<"U+01AE", <<"U+0288">>>>, <<"U+01AF", <<"U+01B0">>>>,
      <<"U+01B1", <<"U+028A">>>>, <<"U+01B2", <<"U+028B">>>>, <<"U+01B3", <<"U+01B4">>>>, <<"U+01B5", <<"U+01B6">>>>,
      <<"U+01B7", <<"U+0292">>>>, <<"U+01B8", <<"U+01B9">>>>, <<"U+01BC", <<"U+01BD">>>>, <<"U+01C4", <<"U+01C6">>>>,
      <<"U+01C5", <<"U+01C6">>>>, <<"U+01C7", <<"U+01C9">>>>, <<"U+01C8", <<"U+01C9">>>>, <<"U+01CA", <<"U+01CC">>>>,
      <<"U+01CB", <<"U+01CC">>>>, <<"U+01CD", <<"U+01CE">>>>, <<"U+01CF", <<"U+01D0">>>>, <<"U+01D1", <<"U+01D2">>>>,
      <<"U+01D3", <<"U+01D4">>>>, <<"U+01D5", <<"U+01D6">>>>, <<"U+01D7", <<"U+01D8">>>>, <<"U+01D9", <<"U+01DA">>>>,
      <<"U+01DB", <<"U+01DC">>>>, <<"U+01DE", <<"U+01DF">>>>, <<"U+01E0", <<"U+01E1">>>>, <<"U+01E2", <<"U+01E3">>>>,
      <<"U+01E4", <<"U+01E5">>>>, <<"U+01E6", <<"U+01E7">>>>, <<"U+01E8", <<"U+01E9">>>>, <<"U+01EA", <<"U+01EB">>>>,
      <<"U+01EC", <<"U+01ED">>>>, <<"U+01EE", <<"U+01EF">>>>, <<"U+01F1", <<"U+01F3">>>>, <<"U+01F2", <<"U+01F3">>>>,
      <<"U+01F4", <<"U+01F5">>>>, <<"U+01F6", <<"U+0195">>>>, <<"U+01F7", <<"U+01BF">>>>, <<"U+01F8", <<"U+01F9">>>>,
      <<"U+01FA", <<"U+01FB">>>>, <<"U+01FC", <<"U+01FD">>>>, <<"U+01FE", <<"U+01FF">>>>, <<"U+0200", <<"U+0201">>>>,
      <<"U+0202", <<"U+0203">>>>, <<"U+0204", <<"U+0205">>>>, <<"U+0206", <<"U+0207">>>>, <<"U+0208", <<"U+0209">>>>,
      <<"U+020A", <<"U+020B">>>>, <<"U+020C", <<"U+020D">>>>, <<"U+020E", <<"U+020F">>>>, <<"U+0210", <<"U+0211">>>>,
      <<"U+0212", <<"U+0213">>>>, <<"U+0214", <<"U+0215">>>>, <<"U+0216", <<"U+0217">>>>, <<"U+0218", <<"U+0219">>>>,
      <<"U+021A", <<"U+021B">>>>, <<"U+021C", <<"U+021D">>>>, <<"U+021E", <<"U+021F">>>>, <<"U+0220", <<"U+019E">>>>,
      <<"U+0222", <<"U+0223">>>>, <<"U+0224", <<"U+0225">>>>, <<"U+0226", <<"U+0227">>>>, <<"U+0228", <<"U+0229">>>>,
      <<"U+022A", <<"U+022B">>>>, <<"U+022C", <<"U+022D">>>>, <<"U+022E", <<"U+022F">>>>, <<"U+0230", <<"U+0231">>>>,
      <<"U+0232", <<"U+0233">>>>, <<"U+023A", <<"U+2C65">>>>, <<"U+023B", <<"U+023C">>>>, <<"U+023D", <<"U+019A">>>>,
      <<"U+023E", <<"U+2C66">>>>, <<"U+0241", <<"U+0242">>>>, <<"U+0243", <<"U+0180">>>>, <<"U+0244", <<"U+0289">>>>,
      <<"U+0245", <<"U+028C">>>>, <<"U+0246", <<"U+0247">>>>, <<"U+0248", <<"U+0249">>>>, <<"U+024A", <<"U+024B">>>>,
      <<"U+024C", <<"U+024D">>>>, <<"U+024E", <<"U+024F">>>>, <<"U+0370", <<"U+0371">>>>, <<"U+0372", <<"U+0373">>>>,
      <<"U+0376", <<"U+0377">>>>, <<"U+037F", <<"U+03F3">>>>, <<"U+0386", <<"U+03AC">>>>, <<"U+0388", <<"U+03AD">>>>,
      <<"U+0389", <<"U+03AE">>>>, <<"U+038A", <<"U+03AF">>>>, <<"U+038C", <<"U+03CC">>>>, <<"U+038E", <<"U+03CD">>>>,
      <<"U+038F", <<"U+03CE">>>>, <<"U+0391", <<"U+03B1">>>>, <<"U+0392", <<"U+03B2">>>>, <<"U+0393", <<"U+03B3">>>>,
      <<"U+0394", <<"U+03B4">>>>, <<"U+0395", <<"U+03B5">>>>, <<"U+0396", <<"U+03B6">>>>, <<"U+0397", <<"U+03B7">>>>,
      <<"U+0398", <<"U+03B8">>>>, <<"U+0399", <<"U+03B9">>>>, <<"U+039A", <<"U+03BA">>>>, <<"U+039B", <<"U+03BB">>>>,
      <<"U+039C", <<"U+03BC">>>>, <<"U+039D", <<"U+03BD">>>>, <<"U+039E", <<"U+03BE">>>>, <<"U+039F", <<"U+03BF">>>>,
      <<"U+03A0", <<"U+03C0">>>>, <<"U+03A1", <<"U+03C1">>>>, <<"U+03A4", <<"U+03C4">>>>, <<"U+03A5", <<"U+03C5">>>>,
      <<"U+03A6", <<"U+03C6">>>>, <<"U+03A7", <<"U+03C7">>>>, <<"U+03A8", <<"U+03C8">>>>, <<"U+03A9", <<"U+03C9">>>>,
      <<"U+03AA", <<"U+03CA">>>>, <<"U+03AB", <<"U+03CB">>>>, <<"U+03CF", <<"U+03D7">>>>, <<"U+03D8", <<"U+03D9">>>>,
      <<"U+03DA", <<"U+03DB">>>>, <<"U+03DC", <<"U+03DD">>>>, <<"U+03DE", <<"U+03DF">>>>, <<"U+03E0", <<"U+03E1">>>>,
      <<"U+03E2", <<"U+03E3">>>>, <<"U+03E4", <<"U+03E5">>>>, <<"U+03E6", <<"U+03E7">>>>, <<"U+03E8", <<"U+03E9">>>>,
      <<"U+03EA", <<"U+03EB">>>>, <<"U+03EC", <<"U+03ED">>>>, <<"U+03EE", <<"U+03EF">>>>, <<"U+03F4", <<"U+03B8">>>>,
      <<"U+03F7", <<"U+03F8">>>>, <<"U+03F9", <<"U+03F2">>>>, <<"U+03FA", <<"U+03FB">>>>, <<"U+03FD", <<"U+037B">>>>,
      <<"U+03FE", <<"U+037C">>>>, <<"U+03FF", <<"U+037D">>>>, <<"U+0400", <<"U+0450">>>>, <<"U+0401", <<"U+0451">>>>,
      <<"U+0402", <<"U+0452">>>>, <<"U+0403", <<"U+0453">>>>, <<"U+0404", <<"U+0454">>>>, <<"U+0405", <<"U+0455">>>>,
      <<"U+0406", <<"U+0456">>>>, <<"U+0407", <<"U+0457">>>>, <<"U+0408", <<"U+0458">>>>, <<"U+0409", <<"U+0459">>>>,
      <<"U+040A", <<"U+045A">>>>, <<"U+040B", <<"U+045B">>>>, <<"U+040C", <<"U+045C">>>>, <<"U+040D", <<"U+045D">>>>,
      <<"U+040E", <<"U+045E">>>>, <<"U+040F", <<"U+045F">>>>, <<"U+0410", <<"U+0430">>>>, <<"U+0411", <<"U+0431">>>>,
      <<"U+0412", <<"U+0432">>>>, <<"U+0413", <<"U+0433">>>>, <<"U+0414", <<"U+0434">>>>, <<"U+0415", <<"U+0435">>>>,
      <<"U+0416", <<"U+0436">>>>, <<"U+0417", <<"U+0437">>>>, <<"U+0418", <<"U+0438">>>>, <<"U+0419", <<"U+0439">>>>,
      <<"U+041A", <<"U+043A">>>>, <<"U+041B", <<"U+043B">>>>, <<"U+041C", <<"U+043C">>>>, <<"U+041D", <<"U+043D">>>>,
      <<"U+041E", <<"U+043E">>>>, <<"U+041F", <<"U+043F">>>>, <<"U+0420", <<"U+0440">>>>, <<"U+0421", <<"U+0441">>>>,
      <<"U+0422", <<"U+0442">>>>, <<"U+0423", <<"U+0443">>>>, <<"U+0424", <<"U+0444">>>>, <<"U+0425", <<"U+0445">>>>,
      <<"U+0426", <<"U+0446">>>>, <<"U+0427", <<"U+0447">>>>, <<"U+0428", <<"U+0448">>>>, <<"U+0429", <<"U+0449">>>>,
      <<"U+042A", <<"U+044A">>>>, <<"U+042B", <<"U+044B">>>>, <<"U+042C", <<"U+044C">>>>, <<"U+042D", <<"U+044D">>>>,
      <<"U+042E", <<"U+044E">>>>, <<"U+042F", <<"U+044F">>>>, <<"U+0460", <<"U+0461">>>>, <<"U+0462", <<"U+0463">>>>,
      <<"U+0464", <<"U+0465">>>>, <<"U+0466", <<"U+0467">>>>, <<"U+0468", <<"U+0469">>>>, <<"U+046A", <<"U+046B">>>>,
      <<"U+046C", <<"U+046D">>>>, <<"U+046E", <<"U+046F">>>>, <<"U+0470", <<"U+0471">>>>, <<"U+0472", <<"U+0473">>>>,
      <<"U+0474", <<"U+0475">>>>, <<"U+0476", <<"U+0477">>>>, <<"U+0478", <<"U+0479">>>>, <<"U+047A", <<"U+047B">>>>,
      <<"U+047C", <<"U+047D">>>>, <<"U+047E", <<"U+047F">>>>, <<"U+0480", <<"U+0481">>>>, <<"U+048A", <<"U+048B">>>>,
      <<"U+048C", <<"U+048D">>>>, <<"U+048E", <<"U+048F">>>>, <<"U+0490", <<"U+0491">>>>, <<"U+0492", <<"U+0493">>>>,
      <<"U+0494", <<"U+0495">>>>, <<"U+0496", <<"U+0497">>>>, <<"U+0498", <<"U+0499">>>>, <<"U+049A", <<"U+049B">>>>,
      <<"U+049C", <<"U+049D">>>>, <<"U+049E", <<"U+049F">>>>, <<"U+04A0", <<"U+04A1">>>>, <<"U+04A2", <<"U+04A3">>>>,
      <<"U+04A4", <<"U+04A5">>>>, <<"U+04A6", <<"U+04A7">>>>, <<"U+04A8", <<"U+04A9">>>>, <<"U+04AA", <<"U+04AB">>>>,
      <<"U+04AC", <<"U+04AD">>>>, <<"U+04AE", <<"U+04AF">>>>, <<"U+04B0", <<"U+04B1">>>>, <<"U+04B2", <<"U+04B3">>>>,
      <<"U+04B4", <<"U+04B5">>>>, <<"U+04B6", <<"U+04B7">>>>, <<"U+04B8", <<"U+04B9">>>>, <<"U+04BA", <<"U+04BB">>>>,
      <<"U+04BC", <<"U+04BD">>>>, <<"U+04BE", <<"U+04BF">>>>, <<"U+04C0", <<"U+04CF">>>>, <<"U+04C1", <<"U+04C2">>>>,
      <<"U+04C3", <<"U+04C4">>>>, <<"U+04C5", <<"U+04C6">>>>, <<"U+04C7", <<"U+04C8">>>>, <<"U+04C9", <<"U+04CA">>>>,
      <<"U+04CB", <<"U+04CC">>>>, <<"U+04CD", <<"U+04CE">>>>, <<"U+04D0", <<"U+04D1">>>>, <<"U+04D2", <<"U+04D3">>>>,
      <<"U+04D4", <<"U+04D5">>>>, <<"U+04D6", <<"U+04D7">>>>, <<"U+04D8", <<"U+04D9">>>>, <<"U+04DA", <<"U+04DB">>>>,
      <<"U+04DC", <<"U+04DD">>>>, <<"U+04DE", <<"U+04DF">>>>, <<"U+04E0", <<"U+04E1">>>>, <<"U+04E2", <<"U+04E3">>>>,
      <<"U+04E4", <<"U+04E5">>>>, <<"U+04E6", <<"U+04E7">>>>, <<"U+04E8", <<"U+04E9">>>>, <<"U+04EA", <<"U+04EB">>>>,
      <<"U+04EC", <<"U+04ED">>>>, <<"U+04EE", <<"U+04EF">>>>, <<"U+04F0", <<"U+04F1">>>>, <<"U+04F2", <<"U+04F3">>>>,
      <<"U+04F4", <<"U+04F5">>>>, <<"U+04F6", <<"U+04F7">>>>, <<"U+04F8", <<"U+04F9">>>>, <<"U+04FA", <<"U+04FB">>>>,
      <<"U+04FC", <<"U+04FD">>>>, <<"U+04FE", <<"U+04FF">>>>, <<"U+0500", <<"U+0501">>>>, <<"U+0502", <<"U+0503">>>>,
      <<"U+0504", <<"U+0505">>>>, <<"U+0506", <<"U+0507">>>>, <<"U+0508", <<"U+0509">>>>, <<"U+050A", <<"U+050B">>>>,
      <<"U+050C", <<"U+050D">>>>, <<"U+050E", <<"U+050F">>>>, <<"U+0510", <<"U+0511">>>>, <<"U+0512", <<"U+0513">>>>,
      <<"U+0514", <<"U+0515">>>>, <<"U+0516", <<"U+0517">>>>, <<"U+0518", <<"U+0519">>>>, <<"U+051A", <<"U+051B">>>>,
      <<"U+051C", <<"U+051D">>>>, <<"U+051E", <<"U+051F">>>>, <<"U+0520", <<"U+0521">>>>, <<"U+0522", <<"U+0523">>>>,
      <<"U+0524", <<"U+0525">>>>, <<"U+0526", <<"U+0527">>>>, <<"U+0528", <<"U+0529">>>>, <<"U+052A", <<"U+052B">>>>,
      <<"U+052C", <<"U+052D">>>>, <<"U+052E", <<"U+052F">>>>, <<"U+0531", <<"U+0561">>>>, <<"U+0532", <<"U+0562">>>>,
      <<"U+0533", <<"U+0563">>>>, <<"U+0534", <<"U+0564">>>>, <<"U+0535", <<"U+0565">>>>, <<"U+0536", <<"U+0566">>>>,
      <<"U+0537", <<"U+0567">>>>, <<"U+0538", <<"U+0568">>>>, <<"U+0539", <<"U+0569">>>>, <<"U+053A", <<"U+056A">>>>,
      <<"U+053B", <<"U+056B">>>>, <<"U+053C", <<"U+056C">>>>, <<"U+053D", <<"U+056D">>>>, <<"U+053E", <<"U+056E">>>>,
      <<"U+053F", <<"U+056F">>>>, <<"U+0540", <<"U+0570">>>>, <<"U+0541", <<"U+0571">>>>, <<"U+0542", <<"U+0572">>>>,
      <<"U+0543", <<"U+0573">>>>, <<"U+0544", <<"U+0574">>>>, <<"U+0545", <<"U+0575">>>>, <<"U+0546", <<"U+0576">>>>,
      <<"U+0547", <<"U+0577">>>>, <<"U+0548", <<"U+0578">>>>, <<"U+0549", <<"U+0579">>>>, <<"U+054A", <<"U+057A">>>>,
      <<"U+054B", <<"U+057B">>>>, <<"U+054C", <<"U+057C">>>>, <<"U+054D", <<"U+057D">>>>, <<"U+054E", <<"U+057E">>>>,
      <<"U+054F", <<"U+057F">>>>, <<"U+0550", <<"U+0580">>>>, <<"U+0551", <<"U+0581">>>>, <<"U+0552", <<"U+0582">>>>,
      <<"U+0553", <<"U+0583">>>>, <<"U+0554", <<"U+0584">>>>, <<"U+0555", <<"U+0585">>>>, <<"U+0556", <<"U+0586">>>>,
      <<"U+10A0", <<"U+2D00">>>>, <<"U+10A1", <<"U+2D01">>>>, <<"U+10A2", <<"U+2D02">>>>, <<"U+10A3", <<"U+2D03">>>>,
      <<"U+10A4", <<"U+2D04">>>>, <<"U+10A5", <<"U+2D05">>>>, <<"U+10A6", <<"U+2D06">>>>, <<"U+10A7", <<"U+2D07">>>>,
      <<"U+10A8", <<"U+2D08">>>>, <<"U+10A9", <<"U+2D09">>>>, <<"U+10AA", <<"U+2D0A">>>>, <<"U+10AB", <<"U+2D0B">>>>,
      <<"U+10AC", <<"U+2D0C">>>>, <<"U+10AD", <<"U+2D0D">>>>, <<"U+10AE", <<"U+2D0E">>>>, <<"U+10AF", <<"U+2D0F">>>>,
      <<"U+10B0", <<"U+2D10">>>>, <<"U+10B1", <<"U+2D11">>>>, <<"U+10B2", <<"U+2D12">>>>, <<"U+10B3", <<"U+2D13">>>>,
      <<"U+10B4", <<"U+2D14">>>>, <<"U+10B5", <<"U+2D15">>>>, <<"U+10B6", <<"U+2D16">>>>, <<"U+10B7", <<"U+2D17">>>>,
      <<"U+10B8", <<"U+2D18">>>>, <<"U+10B9", <<"U+2D19">>>>, <<"U+10BA", <<"U+2D1A">>>>, <<"U+10BB", <<"U+2D1B">>>>,
      <<"U+10BC", <<"U+2D1C">>>>, <<"U+10BD", <<"U+2D1D">>>>, <<"U+10BE", <<"U+2D1E">>>>, <<"U+10BF", <<"U+2D1F">>>>,
      <<"U+10C0", <<"U+2D20">>>>, <<"U+10C1", <<"U+2D21">>>>, <<"U+10C2", <<"U+2D22">>>>, <<"U+10C3", <<"U+2D23">>>>,
      <<"U+10C4", <<"U+2D24">>>>, <<"U+10C5", <<"U+2D25">>>>, <<"U+10C7", <<"U+2D27">>>>, <<"U+10CD", <<"U+2D2D">>>>,
      <<"U+13A0", <<"U+AB70">>>>, <<"U+13A1", <<"U+AB71">>>>, <<"U+13A2", <<"U+AB72">>>>, <<"U+13A3", <<"U+AB73">>>>,
      <<"U+13A4", <<"U+AB74">>>>, <<"U+13A5", <<"U+AB75">>>>, <<"U+13A6", <<"U+AB76">>>>, <<"U+13A7", <<"U+AB77">>>>,
      <<"U+13A8", <<"U+AB78">>>>, <<"U+13A9", <<"U+AB79">>>>, <<"U+13AA", <<"U+AB7A">>>>, <<"U+13AB", <<"U+AB7B">>>>,
      <<"U+13AC", <<"U+AB7C">>>>, <<"U+13AD", <<"U+AB7D">>>>, <<"U+13AE", <<"U+AB7E">>>>, <<"U+13AF", <<"U+AB7F">>>>,
      <<"U+13B0", <<"U+AB80">>>>, <<"U+13B1", <<"U+AB81">>>>, <<"U+13B2", <<"U+AB82">>>>, <<"U+13B3", <<"U+AB83">>>>,
      <<"U+13B4", <<"U+AB84">>>>, <<"U+13B5", <<"U+AB85">>>>, <<"U+13B6", <<"U+AB86">>>>, <<"U+13B7", <<"U+AB87">>>>,
      <<"U+13B8", <<"U+AB88">>>>, <<"U+13B9", <<"U+AB89">>>>, <<"U+13BA", <<"U+AB8A">>>>, <<"U+13BB", <<"U+AB8B">>>>,
      <<"U+13BC", <<"U+AB8C">>>>, <<"U+13BD", <<"U+AB8D">>>>, <<"U+13BE", <<"U+AB8E">>>>, <<"U+13BF", <<"U+AB8F">>>>,
      <<"U+13C0", <<"U+AB90">>>>, <<"U+13C1", <<"U+AB91">>>>, <<"U+13C2", <<"U+AB92">>>>, <<"U+13C3", <<"U+AB93">>>>,
      <<"U+13C4", <<"U+AB94">>>>, <<"U+13C5", <<"U+AB95">>>>, <<"U+13C6", <<"U+AB96">>>>, <<"U+13C7", <<"U+AB97">>>>,
      <<"U+13C8", <<"U+AB98">>>>, <<"U+13C9", <<"U+AB99">>>>, <<"U+13CA", <<"U+AB9A">>>>, <<"U+13CB", <<"U+AB9B">>>>,
      <<"U+13CC", <<"U+AB9C">>>>, <<"U+13CD", <<"U+AB9D">>>>, <<"U+13CE", <<"U+AB9E">>>>, <<"U+13CF", <<"U+AB9F">>>>,
      <<"U+13D0", <<"U+ABA0">>>>, <<"U+13D1", <<"U+ABA1">>>>, <<"U+13D2", <<"U+ABA2">>>>, <<"U+13D3", <<"U+ABA3">>>>,
      <<"U+13D4", <<"U+ABA4">>>>, <<"U+13D5", <<"U+ABA5">>>>, <<"U+13D6", <<"U+ABA6">>>>, <<"U+13D7", <<"U+ABA7">>>>,
      <<"U+13D8", <<"U+ABA8">>>>, <<"U+13D9", <<"U+ABA9">>>>, <<"U+13DA", <<"U+ABAA">>>>, <<"U+13DB", <<"U+ABAB">>>>,
      <<"U+13DC", <<"U+ABAC">>>>, <<"U+13DD", <<"U+ABAD">>>>, <<"U+13DE", <<"U+ABAE">>>>, <<"U+13DF", <<"U+ABAF">>>>,
      <<"U+13E0", <<"U+ABB0">>>>, <<"U+13E1", <<"U+ABB1">>>>, <<"U+13E2", <<"U+ABB2">>>>, <<"U+13E3", <<"U+ABB3">>>>,
      <<"U+13E4", <<"U+ABB4">>>>, <<"U+13E5", <<"U+ABB5">>>>, <<"U+13E6", <<"U+ABB6">>>>, <<"U+13E7", <<"U+ABB7">>>>,
      <<"U+13E8", <<"U+ABB8">>>>, <<"U+13E9", <<"U+ABB9">>>>, <<"U+13EA", <<"U+ABBA">>>>, <<"U+13EB", <<"U+ABBB">>>>,
      <<"U+13EC", <<"U+ABBC">>>>, <<"U+13ED", <<"U+ABBD">>>>, <<"U+13EE", <<"U+ABBE">>>>, <<"U+13EF", <<"U+ABBF">>>>,
      <<"U+13F0", <<"U+13F8">>>>, <<"U+13F1", <<"U+13F9">>>>, <<"U+13F2", <<"U+13FA">>>>, <<"U+13F3", <<"U+13FB">>>>,
      <<"U+13F4", <<"U+13FC">>>>, <<"U+13F5", <<"U+13FD">>>>, <<"U+1C90", <<"U+10D0">>>>, <<"U+1C91", <<"U+10D1">>>>,
      <<"U+1C92", <<"U+10D2">>>>, <<"U+1C93", <<"U+10D3">>>>, <<"U+1C94", <<"U+10D4">>>>, <<"U+1C95", <<"U+10D5">>>>,
      <<"U+1C96", <<"U+10D6">>>>, <<"U+1C97", <<"U+10D7">>>>, <<"U+1C98", <<"U+10D8">>>>, <<"U+1C99", <<"U+10D9">>>>,
      <<"U+1C9A", <<"U+10DA">>>>, <<"U+1C9B", <<"U+10DB">>>>, <<"U+1C9C", <<"U+10DC">>>>, <<"U+1C9D", <<"U+10DD">>>>,
      <<"U+1C9E", <<"U+10DE">>>>, <<"U+1C9F", <<"U+10DF">>>>, <<"U+1CA0", <<"U+10E0">>>>, <<"U+1CA1", <<"U+10E1">>>>,
      <<"U+1CA2", <<"U+10E2">>>>, <<"U+1CA3", <<"U+10E3">>>>, <<"U+1CA4", <<"U+10E4">>>>, <<"U+1CA5", <<"U+10E5">>>>,
      <<"U+1CA6", <<"U+10E6">>>>, <<"U+1CA7", <<"U+10E7">>>>, <<"U+1CA8", <<"U+10E8">>>>, <<"U+1CA9", <<"U+10E9">>>>,
      <<"U+1CAA", <<"U+10EA">>>>, <<"U+1CAB", <<"U+10EB">>>>, <<"U+1CAC", <<"U+10EC">>>>, <<"U+1CAD", <<"U+10ED">>>>,
      <<"U+1CAE", <<"U+10EE">>>>, <<"U+1CAF", <<"U+10EF">>>>, <<"U+1CB0", <<"U+10F0">>>>, <<"U+1CB1", <<"U+10F1">>>>,
      <<"U+1CB2", <<"U+10F2">>>>, <<"U+1CB3", <<"U+10F3">>>>, <<"U+1CB4", <<"U+10F4">>>>, <<"U+1CB5", <<"U+10F5">>>>,
      <<"U+1CB6", <<"U+10F6">>>>, <<"U+1CB7", <<"U+10F7">>>>, <<"U+1CB8", <<"U+10F8">>>>, <<"U+1CB9", <<"U+10F9">>>>,
      <<"U+1CBA", <<"U+10FA">>>>, <<"U+1CBD", <<"U+10FD">>>>, <<"U+1CBE", <<"U+10FE">>>>, <<"U+1CBF", <<"U+10FF">>>>,
      <<"U+1E00", <<"U+1E01">>>>, <<"U+1E02", <<"U+1E03">>>>, <<"U+1E04", <<"U+1E05">>>>, <<"U+1E06", <<"U+1E07">>>>,
      <<"U+1E08", <<"U+1E09">>>>, <<"U+1E0A", <<"U+1E0B">>>>, <<"U+1E0C", <<"U+1E0D">>>>, <<"U+1E0E", <<"U+1E0F">>>>,
      <<"U+1E10", <<"U+1E11">>>>, <<"U+1E12", <<"U+1E13">>>>, <<"U+1E14", <<"U+1E15">>>>, <<"U+1E16", <<"U+1E17">>>>,
      <<"U+1E18", <<"U+1E19">>>>, <<"U+1E1A", <<"U+1E1B">>>>, <<"U+1E1C", <<"U+1E1D">>>>, <<"U+1E1E", <<"U+1E1F">>>>,
      <<"U+1E20", <<"U+1E21">>>>, <<"U+1E22", <<"U+1E23">>>>, <<"U+1E24", <<"U+1E25">>>>, <<"U+1E26", <<"U+1E27">>>>,
      <<"U+1E28", <<"U+1E29">>>>, <<"U+1E2A", <<"U+1E2B">>>>, <<"U+1E2C", <<"U+1E2D">>>>, <<"U+1E2E", <<"U+1E2F">>>>,
      <<"U+1E30", <<"U+1E31">>>>, <<"U+1E32", <<"U+1E33">>>>, <<"U+1E34", <<"U+1E35">>>>, <<"U+1E36", <<"U+1E37">>>>,
      <<"U+1E38", <<"U+1E39">>>>, <<"U+1E3A", <<"U+1E3B">>>>, <<"U+1E3C", <<"U+1E3D">>>>, <<"U+1E3E", <<"U+1E3F">>>>,
      <<"U+1E40", <<"U+1E41">>>>, <<"U+1E42", <<"U+1E43">>>>, <<"U+1E44", <<"U+1E45">>>>, <<"U+1E46", <<"U+1E47">>>>,
      <<"U+1E48", <<"U+1E49">>>>, <<"U+1E4A", <<"U+1E4B">>>>, <<"U+1E4C", <<"U+1E4D">>>>, <<"U+1E4E", <<"U+1E4F">>>>,
      <<"U+1E50", <<"U+1E51">>>>, <<"U+1E52", <<"U+1E53">>>>, <<"U+1E54", <<"U+1E55">>>>, <<"U+1E56", <<"U+1E57">>>>,
      <<"U+1E58", <<"U+1E59">>>>, <<"U+1E5A", <<"U+1E5B">>>>, <<"U+1E5C", <<"U+1E5D">>>>, <<"U+1E5E", <<"U+1E5F">>>>,
      <<"U+1E60", <<"U+1E61">>>>, <<"U+1E62", <<"U+1E63">>>>, <<"U+1E64", <<"U+1E65">>>>, <<"U+1E66", <<"U+1E67">>>>,
      <<"U+1E68", <<"U+1E69">>>>, <<"U+1E6A", <<"U+1E6B">>>>, <<"U+1E6C", <<"U+1E6D">>>>, <<"U+1E6E", <<"U+1E6F">>>>,
      <<"U+1E70", <<"U+1E71">>>>, <<"U+1E72", <<"U+1E73">>>>, <<"U+1E74", <<"U+1E75">>>>, <<"U+1E76", <<"U+1E77">>>>,
      <<"U+1E78", <<"U+1E79">>>>, <<"U+1E7A", <<"U+1E7B">>>>, <<"U+1E7C", <<"U+1E7D">>>>, <<"U+1E7E", <<"U+1E7F">>>>,
      <<"U+1E80", <<"U+1E81">>>>, <<"U+1E82", <<"U+1E83">>>>, <<"U+1E84", <<"U+1E85">>>>, <<"U+1E86", <<"U+1E87">>>>,
      <<"U+1E88", <<"U+1E89">>>>, <<"U+1E8A", <<"U+1E8B">>>>, <<"U+1E8C", <<"U+1E8D">>>>, <<"U+1E8E", <<"U+1E8F">>>>,
      <<"U+1E90", <<"U+1E91">>>>, <<"U+1E92", <<"U+1E93">>>>, <<"U+1E94", <<"U+1E95">>>>, <<"U+1E9E", <<"U+00DF">>>>,
      <<"U+1EA0", <<"U+1EA1">>>>, <<"U+1EA2", <<"U+1EA3">>>>, <<"U+1EA4", <<"U+1EA5">>>>, <<"U+1EA6", <<"U+1EA7">>>>,
      <<"U+1EA8", <<"U+1EA9">>>>, <<"U+1EAA", <<"U+1EAB">>>>, <<"U+1EAC", <<"U+1EAD">>>>, <<"U+1EAE", <<"U+1EAF">>>>,
      <<"U+1EB0", <<"U+1EB1">>>>, <<"U+1EB2", <<"U+1EB3">>>>, <<"U+1EB4", <<"U+1EB5">>>>, <<"U+1EB6", <<"U+1EB7">>>>,
      <<"U+1EB8", <<"U+1EB9">>>>, <<"U+1EBA", <<"U+1EBB">>>>, <<"U+1EBC", <<"U+1EBD">>>>, <<"U+1EBE", <<"U+1EBF">>>>,
      <<"U+1EC0", <<"U+1EC1">>>>, <<"U+1EC2", <<"U+1EC3">>>>, <<"U+1EC4", <<"U+1EC5">>>>, <<"U+1EC6", <<"U+1EC7">>>>,
      <<"U+1EC8", <<"U+1EC9">>>>, <<"U+1ECA", <<"U+1ECB">>>>, <<"U+1ECC", <<"U+1ECD">>>>, <<"U+1ECE", <<"U+1ECF">>>>,
      <<"U+1ED0", <<"U+1ED1">>>>, <<"U+1ED2", <<"U+1ED3">>>>, <<"U+1ED4", <<"U+1ED5">>>>, <<"U+1ED6", <<"U+1ED7">>>>,
      <<"U+1ED8", <<"U+1ED9">>>>, <<"U+1EDA", <<"U+1EDB">>>>, <<"U+1EDC", <<"U+1EDD">>>>, <<"U+1EDE", <<"U+1EDF">>>>,
      <<"U+1EE0", <<"U+1EE1">>>>, <<"U+1EE2", <<"U+1EE3">>>>, <<"U+1EE4", <<"U+1EE5">>>>, <<"U+1EE6", <<"U+1EE7">>>>,
      <<"U+1EE8", <<"U+1EE9">>>>, <<"U+1EEA", <<"U+1EEB">>>>, <<"U+1EEC", <<"U+1EED">>>>, <<"U+1EEE", <<"U+1EEF">>>>,
      <<"U+1EF0", <<"U+1EF1">>>>, <<"U+1EF2", <<"U+1EF3">>>>, <<"U+1EF4", <<"U+1EF5">>>>, <<"U+1EF6", <<"U+1EF7">>>>,
      <<"U+1EF8", <<"U+1EF9">>>>, <<"U+1EFA", <<"U+1EFB">>>>, <<"U+1EFC", <<"U+1EFD">>>>, <<"U+1EFE", <<"U+1EFF">>>>,
      <<"U+1F08", <<"U+1F00">>>>, <<"U+1F09", <<"U+1F01">>>>, <<"U+1F0A", <<"U+1F02">>>>, <<"U+1F0B", <<"U+1F03">>>>,
      <<"U+1F0C", <<"U+1F04">>>>, <<"U+1F0D", <<"U+1F05">>>>, <<"U+1F0E", <<"U+1F06">>>>, <<"U+1F0F", <<"U+1F07">>>>,
      <<"U+1F18", <<"U+1F10">>>>, <<"U+1F19", <<"U+1F11">>>>, <<"U+1F1A", <<"U+1F12">>>>, <<"U+1F1B", <<"U+1F13">>>>,
      <<"U+1F1C", <<"U+1F14">>>>, <<"U+1F1D", <<"U+1F15">>>>, <<"U+1F28", <<"U+1F20">>>>, <<"U+1F29", <<"U+1F21">>>>,
      <<"U+1F2A", <<"U+1F22">>>>, <<"U+1F2B", <<"U+1F23">>>>, <<"U+1F2C", <<"U+1F24">>>>, <<"U+1F2D", <<"U+1F25">>>>,
      <<"U+1F2E", <<"U+1F26">>>>, <<"U+1F2F", <<"U+1F27">>>>, <<"U+1F38", <<"U+1F30">>>>, <<"U+1F39", <<"U+1F31">>>>,
      <<"U+1F3A", <<"U+1F32">>>>, <<"U+1F3B", <<"U+1F33">>>>, <<"U+1F3C", <<"U+1F34">>>>, <<"U+1F3D", <<"U+1F35">>>>,
      <<"U+1F3E", <<"U+1F36">>>>, <<"U+1F3F", <<"U+1F37">>>>, <<"U+1F48", <<"U+1F40">>>>, <<"U+1F49", <<"U+1F41">>>>,
      <<"U+1F4A", <<"U+1F42">>>>, <<"U+1F4B", <<"U+1F43">>>>, <<"U+1F4C", <<"U+1F44">>>>, <<"U+1F4D", <<"U+1F45">>>>,
      <<"U+1F59", <<"U+1F51">>>>, <<"U+1F5B", <<"U+1F53">>>>, <<"U+1F5D", <<"U+1F55">>>>, <<"U+1F5F", <<"U+1F57">>>>,
      <<"U+1F68", <<"U+1F60">>>>, <<"U+1F69", <<"U+1F61">>>>, <<"U+1F6A", <<"U+1F62">>>>, <<"U+1F6B", <<"U+1F63">>>>,
      <<"U+1F6C", <<"U+1F64">>>>, <<"U+1F6D", <<"U+1F65">>>>, <<"U+1F6E", <<"U+1F66">>>>, <<"U+1F6F", <<"U+1F67">>>>,
      <<"U+1F88", <<"U+1F80">>>>, <<"U+1F89", <<"U+1F81">>>>, <<"U+1F8A", <<"U+1F82">>>>, <<"U+1F8B", <<"U+1F83">>>>,
      <<"U+1F8C", <<"U+1F84">>>>, <<"U+1F8D", <<"U+1F85">>>>, <<"U+1F8E", <<"U+1F86">>>>, <<"U+1F8F", <<"U+1F87">>>>,
      <<"U+1F98", <<"U+1F90">>>>, <<"U+1F99", <<"U+1F91">>>>, <<"U+1F9A", <<"U+1F92">>>>, <<"U+1F9B", <<"U+1F93">>>>,
      <<"U+1F9C", <<"U+1F94">>>>, <<"U+1F9D", <<"U+1F95">>>>, <<"U+1F9E", <<"U+1F96">>>>, <<"U+1F9F", <<"U+1F97">>>>,
      <<"U+1FA8", <<"U+1FA0">>>>, <<"U+1FA9", <<"U+1FA1">>>>, <<"U+1FAA", <<"U+1FA2">>>>, <<"U+1FAB", <<"U+1FA3">>>>,
      <<"U+1FAC", <<"U+1FA4">>>>, <<"U+1FAD", <<"U+1FA5">>>>, <<"U+1FAE", <<"U+1FA6">>>>, <<"U+1FAF", <<"U+1FA7">>>>,
      <<"U+1FB8", <<"U+1FB0">>>>, <<"U+1FB9", <<"U+1FB1">>>>, <<"U+1FBA", <<"U+1F70">>>>, <<"U+1FBB", <<"U+1F71">>>>,
      <<"U+1FBC", <<"U+1FB3">>>>, <<"U+1FC8", <<"U+1F72">>>>, <<"U+1FC9", <<"U+1F73">>>>, <<"U+1FCA", <<"U+1F74">>>>,
      <<"U+1FCB", <<"U+1F75">>>>, <<"U+1FCC", <<"U+1FC3">>>>, <<"U+1FD8", <<"U+1FD0">>>>, <<"U+1FD9", <<"U+1FD1">>>>,
      <<"U+1FDA", <<"U+1F76">>>>, <<"U+1FDB", <<"U+1F77">>>>, <<"U+1FE8", <<"U+1FE0">>>>, <<"U+1FE9", <<"U+1FE1">>>>,
      <<"U+1FEA", <<"U+1F7A">>>>, <<"U+1FEB", <<"U+1F7B">>>>, <<"U+1FEC", <<"U+1FE5">>>>, <<"U+1FF8", <<"U+1F78">>>>,
      <<"U+1FF9", <<"U+1F79">>>>, <<"U+1FFA", <<"U+1F7C">>>>, <<"U+1FFB", <<"U+1F7D">>>>, <<"U+1FFC", <<"U+1FF3">>>>,
      <<"U+2126", <<"U+03C9">>>>, <<"U+212A", <<"k">>>>, <<"U+212B", <<"U+00E5">>>>, <<"U+2132", <<"U+214E">>>>,
      <<"U+2160", <<"U+2170">>>>, <<"U+2161", <<"U+2171">>>>, <<"U+2162", <<"U+2172">>>>, <<"U+2163", <<"U+2173">>>>,
      <<"U+2164", <<"U+2174">>>>, <<"U+2165", <<"U+2175">>>>, <<"U+2166", <<"U+2176">>>>, <<"U+2167", <<"U+2177">>>>,
      <<"U+2168", <<"U+2178">>>>, <<"U+2169", <<"U+2179">>>>, <<"U+216A", <<"U+217A">>>>, <<"U+216B", <<"U+217B">>>>,
      <<"U+216C", <<"U+217C">>>>, <<"U+216D", <<"U+217D">>>>, <<"U+216E", <<"U+217E">>>>, <<"U+216F", <<"U+217F">>>>,
      <<"U+2183", <<"U+2184">>>>, <<"U+24B6", <<"U+24D0">>>>, <<"U+24B7", <<"U+24D1">>>>, <<"U+24B8", <<"U+24D2">>>>,
      <<"U+24B9", <<"U+24D3">>>>, <<"U+24BA", <<"U+24D4">>>>, <<"U+24BB", <<"U+24D5">>>>, <<"U+24BC", <<"U+24D6">>>>,
      <<"U+24BD", <<"U+24D7">>>>, <<"U+24BE", <<"U+24D8">>>>, <<"U+24BF", <<"U+24D9">>>>, <<"U+24C0", <<"U+24DA">>>>,
      <<"U+24C1", <<"U+24DB">>>>, <<"U+24C2", <<"U+24DC">>>>, <<"U+24C3", <<"U+24DD">>>>, <<"U+24C4", <<"U+24DE">>>>,
      <<"U+24C5", <<"U+24DF">>>>, <<"U+24C6", <<"U+24E0">>>>, <<"U+24C7", <<"U+24E1">>>>, <<"U+24C8", <<"U+24E2">>>>,
      <<"U+24C9", <<"U+24E3">>>>, <<"U+24CA", <<"U+24E4">>>>, <<"U+24CB", <<"U+24E5">>>>, <<"U+24CC", <<"U+24E6">>>>,
      <<"U+24CD", <<"U+24E7">>>>, <<"U+24CE", <<"U+24E8">>>>, <<"U+24CF", <<"U+24E9">>>>, <<"U+2C00", <<"U+2C30">>>>,
      <<"U+2C01", <<"U+2C31">>>>, <<"U+2C02", <<"U+2C32">>>>, <<"U+2C03", <<"U+2C33">>>>, <<"U+2C04", <<"U+2C34">>>>,
      <<"U+2C05", <<"U+2C35">>>>, <<"U+2C06", <<"U+2C36">>>>, <<"U+2C07", <<"U+2C37">>>>, <<"U+2C08", <<"U+2C38">>>>,
      <<"U+2C09", <<"U+2C39">>>>, <<"U+2C0A", <<"U+2C3A">>>>, <<"U+2C0B", <<"U+2C3B">>>>, <<"U+2C0C", <<"U+2C3C">>>>,
      <<"U+2C0D", <<"U+2C3D">>>>, <<"U+2C0E", <<"U+2C3E">>>>, <<"U+2C0F", <<"U+2C3F">>>>, <<"U+2C10", <<"U+2C40">>>>,
      <<"U+2C11", <<"U+2C41">>>>, <<"U+2C12", <<"U+2C42">>>>, <<"U+2C13", <<"U+2C43">>>>, <<"U+2C14", <<"U+2C44">>>>,
      <<"U+2C15", <<"U+2C45">>>>, <<"U+2C16", <<"U+2C46">>>>, <<"U+2C17", <<"U+2C47">>>>, <<"U+2C18", <<"U+2C48">>>>,
      <<"U+2C19", <<"U+2C49">>>>, <<"U+2C1A", <<"U+2C4A">>>>, <<"U+2C1B", <<"U+2C4B">>>>, <<"U+2C1C", <<"U+2C4C">>>>,
      <<"U+2C1D", <<"U+2C4D">>>>, <<"U+2C1E", <<"U+2C4E">>>>, <<"U+2C1F", <<"U+2C4F">>>>, <<"U+2C20", <<"U+2C50">>>>,
      <<"U+2C21", <<"U+2C51">>>>, <<"U+2C22", <<"U+2C52">>>>, <<"U+2C23", <<"U+2C53">>>>, <<"U+2C24", <<"U+2C54">>>>,
      <<"U+2C25", <<"U+2C55">>>>, <<"U+2C26", <<"U+2C56">>>>, <<"U+2C27", <<"U+2C57">>>>, <<"U+2C28", <<"U+2C58">>>>,
      <<"U+2C29", <<"U+2C59">>>>, <<"U+2C2A", <<"U+2C5A">>>>, <<"U+2C2B", <<"U+2C5B">>>>, <<"U+2C2C", <<"U+2C5C">>>>,
      <<"U+2C2D", <<"U+2C5D">>>>, <<"U+2C2E", <<"U+2C5E">>>>, <<"U+2C2F", <<"U+2C5F">>>>, <<"U+2C60", <<"U+2C61">>>>,
      <<"U+2C62", <<"U+026B">>>>, <<"U+2C63", <<"U+1D7D">>>>, <<"U+2C64", <<"U+027D">>>>, <<"U+2C67", <<"U+2C68">>>>,
      <<"U+2C69", <<"U+2C6A">>>>, <<"U+2C6B", <<"U+2C6C">>>>, <<"U+2C6D", <<"U+0251">>>>, <<"U+2C6E", <<"U+0271">>>>,
      <<"U+2C6F", <<"U+0250">>>>, <<"U+2C70", <<"U+0252">>>>, <<"U+2C72", <<"U+2C73">>>>, <<"U+2C75", <<"U+2C76">>>>,
      <<"U+2C7E", <<"U+023F">>>>, <<"U+2C7F", <<"U+0240">>>>, <<"U+2C80", <<"U+2C81">>>>, <<"U+2C82", <<"U+2C83">>>>,
      <<"U+2C84", <<"U+2C85">>>>, <<"U+2C86", <<"U+2C87">>>>, <<"U+2C88", <<"U+2C89">>>>, <<"U+2C8A", <<"U+2C8B">>>>,
      <<"U+2C8C", <<"U+2C8D">>>>, <<"U+2C8E", <<"U+2C8F">>>>, <<"U+2C90", <<"U+2C91">>>>, <<"U+2C92", <<"U+2C93">>>>,
      <<"U+2C94", <<"U+2C95">>>>, <<"U+2C96", <<"U+2C97">>>>, <<"U+2C98", <<"U+2C99">>>>, <<"U+2C9A", <<"U+2C9B">>>>,
      <<"U+2C9C", <<"U+2C9D">>>>, <<"U+2C9E", <<"U+2C9F">>>>, <<"U+2CA0", <<"U+2CA1">>>>, <<"U+2CA2", <<"U+2CA3">>>>,
      <<"U+2CA4", <<"U+2CA5">>>>, <<"U+2CA6", <<"U+2CA7">>>>, <<"U+2CA8", <<"U+2CA9">>>>, <<"U+2CAA", <<"U+2CAB">>>>,
      <<"U+2CAC", <<"U+2CAD">>>>, <<"U+2CAE", <<"U+2CAF">>>>, <<"U+2CB0", <<"U+2CB1">>>>, <<"U+2CB2", <<"U+2CB3">>>>,
      <<"U+2CB4", <<"U+2CB5">>>>, <<"U+2CB6", <<"U+2CB7">>>>, <<"U+2CB8", <<"U+2CB9">>>>, <<"U+2CBA", <<"U+2CBB">>>>,
      <<"U+2CBC", <<"U+2CBD">>>>, <<"U+2CBE", <<"U+2CBF">>>>, <<"U+2CC0", <<"U+2CC1">>>>, <<"U+2CC2", <<"U+2CC3">>>>,
      <<"U+2CC4", <<"U+2CC5">>>>, <<"U+2CC6", <<"U+2CC7">>>>, <<"U+2CC8", <<"U+2CC9">>>>, <<"U+2CCA", <<"U+2CCB">>>>,
      <<"U+2CCC", <<"U+2CCD">>>>, <<"U+2CCE", <<"U+2CCF">>>>, <<"U+2CD0", <<"U+2CD1">>>>, <<"U+2CD2", <<"U+2CD3">>>>,
      <<"U+2CD4", <<"U+2CD5">>>>, <<"U+2CD6", <<"U+2CD7">>>>, <<"U+2CD8", <<"U+2CD9">>>>, <<"U+2CDA", <<"U+2CDB">>>>,
      <<"U+2CDC", <<"U+2CDD">>>>, <<"U+2CDE", <<"U+2CDF">>>>, <<"U+2CE0", <<"U+2CE1">>>>, <<"U+2CE2", <<"U+2CE3">>>>,
      <<"U+2CEB", <<"U+2CEC">>>>, <<"U+2CED", <<"U+2CEE">>>>, <<"U+2CF2", <<"U+2CF3">>>>, <<"U+A640", <<"U+A641">>>>,
      <<"U+A642", <<"U+A643">>>>, <<"U+A644", <<"U+A645">>>>, <<"U+A646", <<"U+A647">>>>, <<"U+A648", <<"U+A649">>>>,
      <<"U+A64A", <<"U+A64B">>>>, <<"U+A64C", <<"U+A64D">>>>, <<"U+A64E", <<"U+A64F">>>>, <<"U+A650", <<"U+A651">>>>,
      <<"U+A652", <<"U+A653">>>>, <<"U+A654", <<"U+A655">>>>, <<"U+A656", <<"U+A657">>>>, <<"U+A658", <<"U+A659">>>>,
      <<"U+A65A", <<"U+A65B">>>>, <<"U+A65C", <<"U+A65D">>>>, <<"U+A65E", <<"U+A65F">>>>, <<"U+A660", <<"U+A661">>>>,
      <<"U+A662", <<"U+A663">>>>, <<"U+A664", <<"U+A665">>>>, <<"U+A666", <<"U+A667">>>>, <<"U+A668", <<"U+A669">>>>,
      <<"U+A66A", <<"U+A66B">>>>, <<"U+A66C", <<"U+A66D">>>>, <<"U+A680", <<"U+A681">>>>, <<"U+A682", <<"U+A683">>>>,
      <<"U+A684", <<"U+A685">>>>, <<"U+A686", <<"U+A687">>>>, <<"U+A688", <<"U+A689">>>>, <<"U+A68A", <<"U+A68B">>>>,
      <<"U+A68C", <<"U+A68D">>>>, <<"U+A68E", <<"U+A68F">>>>, <<"U+A690", <<"U+A691">>>>, <<"U+A692", <<"U+A693">>>>,
      <<"U+A694", <<"U+A695">>>>, <<"U+A696", <<"U+A697">>>>, <<"U+A698", <<"U+A699">>>>, <<"U+A69A", <<"U+A69B">>>>,
      <<"U+A722", <<"U+A723">>>>, <<"U+A724", <<"U+A725">>>>, <<"U+A726", <<"U+A727">>>>, <<"U+A728", <<"U+A729">>>>,
      <<"U+A72A", <<"U+A72B">>>>, <<"U+A72C", <<"U+A72D">>>>, <<"U+A72E", <<"U+A72F">>>>, <<"U+A732", <<"U+A733">>>>,
      <<"U+A734", <<"U+A735">>>>, <<"U+A736", <<"U+A737">>>>, <<"U+A738", <<"U+A739">>>>, <<"U+A73A", <<"U+A73B">>>>,
      <<"U+A73C", <<"U+A73D">>>>, <<"U+A73E", <<"U+A73F">>>>, <<"U+A740", <<"U+A741">>>>, <<"U+A742", <<"U+A743">>>>,
      <<"U+A744", <<"U+A745">>>>, <<"U+A746", <<"U+A747">>>>, <<"U+A748", <<"U+A749">>>>, <<"U+A74A", <<"U+A74B">>>>,
      <<"U+A74C", <<"U+A74D">>>>, <<"U+A74E", <<"U+A74F">>>>, <<"U+A750", <<"U+A751">>>>, <<"U+A752", <<"U+A753">>>>,
      <<"U+A754", <<"U+A755">>>>, <<"U+A756", <<"U+A757">>>>, <<"U+A758", <<"U+A759">>>>, <<"U+A75A", <<"U+A75B">>>>,
      <<"U+A75C", <<"U+A75D">>>>, <<"U+A75E", <<"U+A75F">>>>, <<"U+A760", <<"U+A761">>>>, <<"U+A762", <<"U+A763">>>>,
      <<"U+A764", <<"U+A765">>>>, <<"U+A766", <<"U+A767">>>>, <<"U+A768", <<"U+A769">>>>, <<"U+A76A", <<"U+A76B">>>>,
      <<"U+A76C", <<"U+A76D">>>>, <<"U+A76E", <<"U+A76F">>>>, <<"U+A779", <<"U+A77A">>>>, <<"U+A77B", <<"U+A77C">>>>,
      <<"U+A77D", <<"U+1D79">>>>, <<"U+A77E", <<"U+A77F">>>>, <<"U+A780", <<"U+A781">>>>, <<"U+A782", <<"U+A783">>>>,
      <<"U+A784", <<"U+A785">>>>, <<"U+A786", <<"U+A787">>>>, <<"U+A78B", <<"U+A78C">>>>, <<"U+A78D", <<"U+0265">>>>,
      <<"U+A790", <<"U+A791">>>>, <<"U+A792", <<"U+A793">>>>, <<"U+A796", <<"U+A797">>>>, <<"U+A798", <<"U+A799">>>>,
      <<"U+A79A", <<"U+A79B">>>>, <<"U+A79C", <<"U+A79D">>>>, <<"U+A79E", <<"U+A79F">>>>, <<"U+A7A0", <<"U+A7A1">>>>,
      <<"U+A7A2", <<"U+A7A3">>>>, <<"U+A7A4", <<"U+A7A5">>>>, <<"U+A7A6", <<"U+A7A7">>>>, <<"U+A7A8", <<"U+A7A9">>>>,
      <<"U+A7AA", <<"U+0266">>>>, <<"U+A7AB", <<"U+025C">>>>, <<"U+A7AC", <<"U+0261">>>>, <<"U+A7AD", <<"U+026C">>>>,
      <<"U+A7AE", <<"U+026A">>>>, <<"U+A7B0", <<"U+029E">>>>, <<"U+A7B1", <<"U+0287">>>>, <<"U+A7B2", <<"U+029D">>>>,
      <<"U+A7B3", <<"U+AB53">>>>, <<"U+A7B4", <<"U+A7B5">>>>, <<"U+A7B6", <<"U+A7B7">>>>, <<"U+A7B8", <<"U+A7B9">>>>,
      <<"U+A7BA", <<"U+A7BB">>>>, <<"U+A7BC", <<"U+A7BD">>>>, <<"U+A7BE", <<"U+A7BF">>>>, <<"U+A7C0", <<"U+A7C1">>>>,
      <<"U+A7C2", <<"U+A7C3">>>>, <<"U+A7C4", <<"U+A794">>>>, <<"U+A7C5", <<"U+0282">>>>, <<"U+A7C6", <<"U+1D8E">>>>,
      <<"U+A7C7", <<"U+A7C8">>>>, <<"U+A7C9", <<"U+A7CA">>>>, <<"U+A7D0", <<"U+A7D1">>>>, <<"U+A7D6", <<"U+A7D7">>>>,
      <<"U+A7D8", <<"U+A7D9">>>>, <<"U+A7F5", <<"U+A7F6">>>>, <<"U+FF21", <<"U+FF41">>>>, <<"U+FF22", <<"U+FF42">>>>,
      <<"U+FF23", <<"U+FF43">>>>, <<"U+FF24", <<"U+FF44">>>>, <<"U+FF25", <<"U+FF45">>>>, <<"U+FF26", <<"U+FF46">>>>,
      <<"U+FF27", <<"U+FF47">>>>, <<"U+FF28", <<"U+FF48">>>>, <<"U+FF29", <<"U+FF49">>>>, <<"U+FF2A", <<"U+FF4A">>>>,
      <<"U+FF2B", <<"U+FF4B">>>>, <<"U+FF2C", <<"U+FF4C">>>>, <<"U+FF2D", <<"U+FF4D">>>>, <<"U+FF2E", <<"U+FF4E">>>>,
      <<"U+FF2F", <<"U+FF4F">>>>, <<"U+FF30", <<"U+FF50">>>>, <<"U+FF31", <<"U+FF51">>>>, <<"U+FF32", <<"U+FF52">>>>,
      <<"U+FF33", <<"U+FF53">>>>, <<"U+FF34", <<"U+FF54">>>>, <<"U+FF35", <<"U+FF55">>>>, <<"U+FF36", <<"U+FF56">>>>,
      <<"U+FF37", <<"U+FF57">>>>, <<"U+FF38", <<"U+FF58">>>>, <<"U+FF39", <<"U+FF59">>>>, <<"U+FF3A", <<"U+FF5A">>>>,
      <<"U+10400", <<"U+10428">>>>, <<"U+10401", <<"U+10429">>>>, <<"U+10402", <<"U+1042A">>>>, <<"U+10403", <<"U+1042B">>>>,
      <<"U+10404", <<"U+1042C">>>>, <<"U+10405", <<"U+1042D">>>>, <<"U+10406", <<"U+1042E">>>>, <<"U+10407", <<"U+1042F">>>>,
      <<"U+10408", <<"U+10430">>>>, <<"U+10409", <<"U+10431">>>>, <<"U+1040A", <<"U+10432">>>>, <<"U+1040B", <<"U+10433">>>>,
      <<"U+1040C", <<"U+10434">>>>, <<"U+1040D", <<"U+10435">>>>, <<"U+1040E", <<"U+10436">>>>, <<"U+1040F", <<"U+10437">>>>,
      <<"U+10410", <<"U+10438">>>>, <<"U+10411", <<"U+10439">>>>, <<"U+10412", <<"U+1043A">>>>, <<"U+10413", <<"U+1043B">>>>,
      <<"U+10414", <<"U+1043C">>>>, <<"U+10415", <<"U+1043D">>>>, <<"U+10416", <<"U+1043E">>>>, <<"U+10417", <<"U+1043F">>>>,
      <<"U+10418", <<"U+10440">>>>, <<"U+10419", <<"U+10441">>>>, <<"U+1041A", <<"U+10442">>>>, <<"U+1041B", <<"U+10443">>>>,
      <<"U+1041C", <<"U+10444">>>>, <<"U+1041D", <<"U+10445">>>>, <<"U+1041E", <<"U+10446">>>>, <<"U+1041F", <<"U+10447">>>>,
      <<"U+10420", <<"U+10448">>>>, <<"U+10421", <<"U+10449">>>>, <<"U+10422", <<"U+1044A">>>>, <<"U+10423", <<"U+1044B">>>>,
      <<"U+10424", <<"U+1044C">>>>, <<"U+10425", <<"U+1044D">>>>, <<"U+10426", <<"U+1044E">>>>, <<"U+10427", <<"U+1044F">>>>,
      <<"U+104B0", <<"U+104D8">>>>, <<"U+104B1", <<"U+104D9">>>>, <<"U+104B2", <<"U+104DA">>>>, <<"U+104B3", <<"U+104DB">>>>,
      <<"U+104B4", <<"U+104DC">>>>, <<"U+104B5", <<"U+104DD">>>>, <<"U+104B6", <<"U+104DE">>>>, <<"U+104B7", <<"U+104DF">>>>,
      <<"U+104B8", <<"U+104E0">>>>, <<"U+104B9", <<"U+104E1">>>>, <<"U+104BA", <<"U+104E2">>>>, <<"U+104BB", <<"U+104E3">>>>,
      <<"U+104BC", <<"U+104E4">>>>, <<"U+104BD", <<"U+104E5">>>>, <<"U+104BE", <<"U+104E6">>>>, <<"U+104BF", <<"U+104E7">>>>,
      <<"U+104C0", <<"U+104E8">>>>, <<"U+104C1", <<"U+104E9">>>>, <<"U+104C2", <<"U+104EA">>>>, <<"U+104C3", <<"U+104EB">>>>,
      <<"U+104C4", <<"U+104EC">>>>, <<"U+104C5", <<"U+104ED">>>>, <<"U+104C6", <<"U+104EE">>>>, <<"U+104C7", <<"U+104EF">>>>,
      <<"U+104C8", <<"U+104F0">>>>, <<"U+104C9", <<"U+104F1">>>>, <<"U+104CA", <<"U+104F2">>>>, <<"U+104CB", <<"U+104F3">>>>,
      <<"U+104CC", <<"U+104F4">>>>, <<"U+104CD", <<"U+104F5">>>>, <<"U+104CE", <<"U+104F6">>>>, <<"U+104CF", <<"U+104F7">>>>,
      <<"U+104D0", <<"U+104F8">>>>, <<"U+104D1", <<"U+104F9">>>>, <<"U+104D2", <<"U+104FA">>>>, <<"U+104D3", <<"U+104FB">>>>,
      <<"U+10570", <<"U+10597">>>>, <<"U+10571", <<"U+10598">>>>, <<"U+10572", <<"U+10599">>>>, <<"U+10573", <<"U+1059A">>>>,
      <<"U+10574", <<"U+1059B">>>>, <<"U+10575", <<"U+1059C">>>>, <<"U+10576", <<"U+1059D">>>>, <<"U+10577", <<"U+1059E">>>>,
      <<"U+10578", <<"U+1059F">>>>, <<"U+10579", <<"U+105A0">>>>, <<"U+1057A", <<"U+105A1">>>>, <<"U+1057C", <<"U+105A3">>>>,
      <<"U+1057D", <<"U+105A4">>>>, <<"U+1057E", <<"U+105A5">>>>, <<"U+1057F", <<"U+105A6">>>>, <<"U+10580", <<"U+105A7">>>>,
      <<"U+10581", <<"U+105A8">>>>, <<"U+10582", <<"U+105A9">>>>, <<"U+10583", <<"U+105AA">>>>, <<"U+10584", <<"U+105AB">>>>,
      <<"U+10585", <<"U+105AC">>>>, <<"U+10586", <<"U+105AD">>>>, <<"U+10587", <<"U+105AE">>>>, <<"U+10588", <<"U+105AF">>>>,
      <<"U+10589", <<"U+105B0">>>>, <<"U+1058A", <<"U+105B1">>>>, <<"U+1058C", <<"U+105B3">>>>, <<"U+1058D", <<"U+105B4">>>>,
      <<"U+1058E", <<"U+105B5">>>>, <<"U+1058F", <<"U+105B6">>>>, <<"U+10590", <<"U+105B7">>>>, <<"U+10591", <<"U+105B8">>>>,
      <<"U+10592", <<"U+105B9">>>>, <<"U+10594", <<"U+105BB">>>>, <<"U+10595", <<"U+105BC">>>>, <<"U+10C80", <<"U+10CC0">>>>,
      <<"U+10C81", <<"U+10CC1">>>>, <<"U+10C82", <<"U+10CC2">>>>, <<"U+10C83", <<"U+10CC3">>>>, <<"U+10C84", <<"U+10CC4">>>>,
      <<"U+10C85", <<"U+10CC5">>>>, <<"U+10C86", <<"U+10CC6">>>>, <<"U+10C87", <<"U+10CC7">>>>, <<"U+10C88", <<"U+10CC8">>>>,
      <<"U+10C89", <<"U+10CC9">>>>, <<"U+10C8A", <<"U+10CCA">>>>, <<"U+10C8B", <<"U+10CCB">>>>, <<"U+10C8C", <<"U+10CCC">>>>,
      <<"U+10C8D", <<"U+10CCD">>>>, <<"U+10C8E", <<"U+10CCE">>>>, <<"U+10C8F", <<"U+10CCF">>>>, <<"U+10C90", <<"U+10CD0">>>>,
      <<"U+10C91", <<"U+10CD1">>>>, <<"U+10C92", <<"U+10CD2">>>>, <<"U+10C93", <<"U+10CD3">>>>, <<"U+10C94", <<"U+10CD4">>>>,
      <<"U+10C95", <<"U+10CD5">>>>, <<"U+10C96", <<"U+10CD6">>>>, <<"U+10C97", <<"U+10CD7">>>>, <<"U+10C98", <<"U+10CD8">>>>,
      <<"U+10C99", <<"U+10CD9">>>>, <<"U+10C9A", <<"U+10CDA">>>>, <<"U+10C9B", <<"U+10CDB">>>>, <<"U+10C9C", <<"U+10CDC">>>>,
      <<"U+10C9D", <<"U+10CDD">>>>, <<"U+10C9E", <<"U+10CDE">>>>, <<"U+10C9F", <<"U+10CDF">>>>, <<"U+10CA0", <<"U+10CE0">>>>,
      <<"U+10CA1", <<"U+10CE1">>>>, <<"U+10CA2", <<"U+10CE2">>>>, <<"U+10CA3", <<"U+10CE3">>>>, <<"U+10CA4", <<"U+10CE4">>>>,
      <<"U+10CA5", <<"U+10CE5">>>>, <<"U+10CA6", <<"U+10CE6">>>>, <<"U+10CA7", <<"U+10CE7">>>>, <<"U+10CA8", <<"U+10CE8">>>>,
      <<"U+10CA9", <<"U+10CE9">>>>, <<"U+10CAA", <<"U+10CEA">>>>, <<"U+10CAB", <<"U+10CEB">>>>, <<"U+10CAC", <<"U+10CEC">>>>,
      <<"U+10CAD", <<"U+10CED">>>>, <<"U+10CAE", <<"U+10CEE">>>>, <<"U+10CAF", <<"U+10CEF">>>>, <<"U+10CB0", <<"U+10CF0">>>>,
      <<"U+10CB1", <<"U+10CF1">>>>, <<"U+10CB2", <<"U+10CF2">>>>, <<"U+118A0", <<"U+118C0">>>>, <<"U+118A1", <<"U+118C1">>>>,
      <<"U+118A2", <<"U+118C2">>>>, <<"U+118A3", <<"U+118C3">>>>, <<"U+118A4", <<"U+118C4">>>>, <<"U+118A5", <<"U+118C5">>>>,
      <<"U+118A6", <<"U+118C6">>>>, <<"U+118A7", <<"U+118C7">>>>, <<"U+118A8", <<"U+118C8">>>>, <<"U+118A9", <<"U+118C9">>>>,
      <<"U+118AA", <<"U+118CA">>>>, <<"U+118AB", <<"U+118CB">>>>, <<"U+118AC", <<"U+118CC">>>>, <<"U+118AD", <<"U+118CD">>>>,
      <<"U+118AE", <<"U+118CE">>>>, <<"U+118AF", <<"U+118CF">>>>, <<"U+118B0", <<"U+118D0">>>>, <<"U+118B1", <<"U+118D1">>>>,
      <<"U+118B2", <<"U+118D2">>>>, <<"U+118B3", <<"U+118D3">>>>, <<"U+118B4", <<"U+118D4">>>>, <<"U+118B5", <<"U+118D5">>>>,
      <<"U+118B6", <<"U+118D6">>>>, <<"U+118B7", <<"U+118D7">>>>, <<"U+118B8", <<"U+118D8">>>>, <<"U+118B9", <<"U+118D9">>>>,
      <<"U+118BA", <<"U+118DA">>>>, <<"U+118BB", <<"U+118DB">>>>, <<"U+118BC", <<"U+118DC">>>>, <<"U+118BD", <<"U+118DD">>>>,
      <<"U+118BE", <<"U+118DE">>>>, <<"U+118BF", <<"U+118DF">>>>, <<"U+16E40", <<"U+16E60">>>>, <<"U+16E41", <<"U+16E61">>>>,
      <<"U+16E42", <<"U+16E62">>>>, <<"U+16E43", <<"U+16E63">>>>, <<"U+16E44", <<"U+16E64">>>>, <<"U+16E45", <<"U+16E65">>>>,
      <<"U+16E46", <<"U+16E66">>>>, <<"U+16E47", <<"U+16E67">>>>, <<"U+16E48", <<"U+16E68">>>>, <<"U+16E49", <<"U+16E69">>>>,
      <<"U+16E4A", <<"U+16E6A">>>>, <<"U+16E4B", <<"U+16E6B">>>>, <<"U+16E4C", <<"U+16E6C">>>>, <<"U+16E4D", <<"U+16E6D">>>>,
      <<"U+16E4E", <<"U+16E6E">>>>, <<"U+16E4F", <<"U+16E6F">>>>, <<"U+16E50", <<"U+16E70">>>>, <<"U+16E51", <<"U+16E71">>>>,
      <<"U+16E52", <<"U+16E72">>>>, <<"U+16E53", <<"U+16E73">>>>, <<"U+16E54", <<"U+16E74">>>>, <<"U+16E55", <<"U+16E75">>>>,
      <<"U+16E56", <<"U+16E76">>>>, <<"U+16E57", <<"U+16E77">>>>, <<"U+16E58", <<"U+16E78">>>>, <<"U+16E59", <<"U+16E79">>>>,
      <<"U+16E5A", <<"U+16E7A">>>>, <<"U+16E5B", <<"U+16E7B">>>>, <<"U+16E5C", <<"U+16E7C">>>>, <<"U+16E5D", <<"U+16E7D">>>>,
      <<"U+16E5E", <<"U+16E7E">>>>, <<"U+16E5F", <<"U+16E7F">>>>, <<"U+1E900", <<"U+1E922">>>>, <<"U+1E901", <<"U+1E923">>>>,
      <<"U+1E902", <<"U+1E924">>>>, <<"U+1E903", <<"U+1E925">>>>, <<"U+1E904", <<"U+1E926">>>>, <<"U+1E905", <<"U+1E927">>>>,
      <<"U+1E906", <<"U+1E928">>>>, <<"U+1E907", <<"U+1E929">>>>, <<"U+1E908", <<"U+1E92A">>>>, <<"U+1E909", <<"U+1E92B">>>>,
      <<"U+1E90A", <<"U+1E92C">>>>, <<"U+1E90B", <<"U+1E92D">>>>, <<"U+1E90C", <<"U+1E92E">>>>, <<"U+1E90D", <<"U+1E92F">>>>,
      <<"U+1E90E", <<"U+1E930">>>>, <<"U+1E90F", <<"U+1E931">>>>, <<"U+1E910", <<"U+1E932">>>>, <<"U+1E911", <<"U+1E933">>>>,
      <<"U+1E912", <<"U+1E934">>>>, <<"U+1E913", <<"U+1E935">>>>, <<"U+1E914", <<"U+1E936">>>>, <<"U+1E915", <<"U+1E937">>>>,
      <<"U+1E916", <<"U+1E938">>>>, <<"U+1E917", <<"U+1E939">>>>, <<"U+1E918", <<"U+1E93A">>>>, <<"U+1E919", <<"U+1E93B">>>>,
      <<"U+1E91A", <<"U+1E93C">>>>, <<"U+1E91B", <<"U+1E93D">>>>, <<"U+1E91C", <<"U+1E93E">>>>, <<"U+1E91D", <<"U+1E93F">>>>,
      <<"U+1E91E", <<"U+1E940">>>>, <<"U+1E91F", <<"U+1E941">>>>, <<"U+1E920", <<"U+1E942">>>>, <<"U+1E921", <<"U+1E943">>>>
    >>

\* the characters with the property Case_Ignorable
CaseIgnorable ==
    {
      "'", ".", ":", "^", "U+0060", "U+00A8", "U+00AD", "U+00AF",
      "U+00B4", "U+00B7", "U+00B8", "U+02B0", "U+02B1", "U+02B2", "U+02B3", "U+02B4",
      "U+02B5", "U+02B6", "U+02B7", "U+02B8", "U+02B9", "U+02BA", "U+02BB", "U+02BC",
      "U+02BD", "U+02BE", "U+02BF", "U+02C0", "U+02C1", "U+02C2", "U+02C3", "U+02C4",
      "U+02C5", "U+02C6", "U+02C7", "U+02C8", "U+02C9", "U+02CA", "U+02CB", "U+02CC",
      "U+02CD", "U+02CE", "U+02CF", "U+02D0", "U+02D1", "U+02D2", "U+02D3", "U+02D4",
      "U+02D5", "U+02D6", "U+02D7", "U+02D8", "U+02D9", "U+02DA", "U+02DB", "U+02DC",
      "U+02DD", "U+02DE", "U+02DF", "U+02E0", "U+02E1", "U+02E2", "U+02E3", "U+02E4",
      "U+02E5", "U+02E6", "U+02E7", "U+02E8", "U+02E9", "U+02EA", "U+02EB", "U+02EC",
      "U+02ED", "U+02EE", "U+02EF", "U+02F0", "U+02F1", "U+02F2", "U+02F3", "U+02F4",
      "U+02F5", "U+02F6", "U+02F7", "U+02F8", "U+02F9", "U+02FA", "U+02FB", "U+02FC",
      "U+02FD", "U+02FE", "U+02FF", "U+0300", "U+0301", "U+0302", "U+0303", "U+0304",
      "U+0305", "U+0306", "U+0307", "U+0308", "U+0309", "U+030A", "U+030B", "U+030C",
      "U+030D", "U+030E", "U+030F", "U+0310", "U+0311", "U+0312", "U+0313", "U+0314",
      "U+0315", "U+0316", "U+0317", "U+0318", "U+0319", "U+031A", "U+031B", "U+031C",
      "U+031D", "U+031E", "U+031F", "U+0320", "U+0321", "U+0322", "U+0323", "U+0324",
      "U+0325", "U+0326", "U+0327", "U+0328", "U+0329", "U+032A", "U+032B", "U+032C",
      "U+032D", "U+032E", "U+032F", "U+0330", "U+0331", "U+0332", "U+0333", "U+0334",
      "U+0335", "U+0336", "U+0337", "U+0338", "U+0339", "U+033A", "U+033B", "U+033C",
      "U+033D", "U+033E", "U+033F", "U+0340", "U+0341", "U+0342", "U+0343", "U+0344",
      "U+0345", "U+0346", "U+0347", "U+0348", "U+0349", "U+034A", "U+034B", "U+034C",
      "U+034D", "U+034E", "U+034F", "U+0350", "U+0351", "U+0352", "U+0353", "U+0354",
      "U+0355", "U+0356", "U+0357", "U+0358", "U+0359", "U+035A", "U+035B", "U+035C",
      "U+035D", "U+035E", "U+035F", "U+0360", "U+0361", "U+0362", "U+0363", "U+0364",
      "U+0365", "U+0366", "U+0367", "U+0368", "U+0369", "U+036A", "U+036B", "U+036C",
      "U+036D", "U+036E", "U+036F", "U+0374", "U+0375", "U+037A", "U+0384", "U+0385",
      "U+0387", "U+0483", "U+0484", "U+0485", "U+0486", "U+0487", "U+0488", "U+0489",
      "U+0559", "U+055F", "U+0591", "U+0592", "U+0593", "U+0594", "U+0595", "U+0596",
      "U+0597", "U+0598", "U+0599", "U+059A", "U+059B", "U+059C", "U+059D", "U+059E",
      "U+059F", "U+05A0", "U+05A1", "U+05A2", "U+05A3", "U+05A4", "U+05A5", "U+05A6",
      "U+05A7", "U+05A8", "U+05A9", "U+05AA", "U+05AB", "U+05AC", "U+05AD", "U+05AE",
      "U+05AF", "U+05B0", "U+05B1", "U+05B2", "U+05B3", "U+05B4", "U+05B5", "U+05B6",
      "U+05B7", "U+05B8", "U+05B9", "U+05BA", "U+05BB", "U+05BC", "U+05BD", "U+05BF",
      "U+05C1", "U+05C2", "U+05C4", "U+05C5", "U+05C7", "U+05F4", "U+0600", "U+0601",
      "U+0602", "U+0603", "U+0604", "U+0605", "U+0610", "U+0611", "U+0612", "U+0613",
      "U+0614", "U+0615", "U+0616", "U+0617", "U+0618", "U+0619", "U+061A", "U+061C",
      "U+0640", "U+064B", "U+064C", "U+064D", "U+064E", "U+064F", "U+0650", "U+0651",
      "U+0652", "U+0653", "U+0654", "U+0655", "U+0656", "U+0657", "U+0658", "U+0659",
      "U+065A", "U+065B", "U+065C", "U+065D", "U+065E", "U+065F", "U+0670", "U+06D6",
      "U+06D7", "U+06D8", "U+06D9", "U+06DA", "U+06DB", "U+06DC", "U+06DD", "U+06DF",
      "U+06E0", "U+06E1", "U+06E2", "U+06E3", "U+06E4", "U+06E5", "U+06E6", "U+06E7",
      "U+06E8", "U+06EA", "U+06EB", "U+06EC", "U+06ED", "U+070F", "U+0711", "U+0730",
      "U+0731", "U+0732", "U+0733", "U+0734", "U+0735", "U+0736", "U+0737", "U+0738",
      "U+0739", "U+073A", "U+073B", "U+073C", "U+073D", "U+073E", "U+073F", "U+0740",
      "U+0741", "U+0742", "U+0743", "U+0744", "U+0745", "U+0746", "U+0747", "U+0748",
      "U+0749", "U+074A", "U+07A6", "U+07A7", "U+07A8", "U+07A9", "U+07AA", "U+07AB",
      "U+07AC", "U+07AD", "U+07AE", "U+07AF", "U+07B0", "U+07EB", "U+07EC", "U+07ED",
      "U+07EE", "U+07EF", "U+07F0", "U+07F1", "U+07F2", "U+07F3", "U+07F4", "U+07F5",
      "U+07FA", "U+07FD", "U+0816", "U+0817", "U+0818", "U+0819", "U+081A", "U+081B",
      "U+081C", "U+081D", "U+081E", "U+081F", "U+0820", "U+0821", "U+0822", "U+0823",
      "U+0824", "U+0825", "U+0826", "U+0827", "U+0828", "U+0829", "U+082A", "U+082B",
      "U+082C", "U+082D", "U+0859", "U+085A", "U+085B", "U+0888", "U+0890", "U+0891",
      "U+0898", "U+0899", "U+089A", "U+089B", "U+089C", "U+089D", "U+089E", "U+089F",
      "U+08C9", "U+08CA", "U+08CB", "U+08CC", "U+08CD", "U+08CE", "U+08CF", "U+08D0",
      "U+08D1", "U+08D2", "U+08D3", "U+08D4", "U+08D5", "U+08D6", "U+08D7", "U+08D8",
      "U+08D9", "U+08DA", "U+08DB", "U+08DC", "U+08DD", "U+08DE", "U+08DF", "U+08E0",
      "U+08E1", "U+08E2", "U+08E3", "U+08E4", "U+08E5", "U+08E6", "U+08E7", "U+08E8",
      "U+08E9", "U+08EA", "U+08EB", "U+08EC", "U+08ED", "U+08EE", "U+08EF", "U+08F0",
      "U+08F1", "U+08F2", "U+08F3", "U+08F4", "U+08F5", "U+08F6", "U+08F7", "U+08F8",
      "U+08F9", "U+08FA", "U+08FB", "U+08FC", "U+08FD", "U+08FE", "U+08FF", "U+0900",
      "U+0901", "U+0902", "U+093A", "U+093C", "U+0941", "U+0942", "U+0943", "U+0944",
      "U+0945", "U+0946", "U+0947", "U+0948", "U+094D", "U+0951", "U+0952", "U+0953",
      "U+0954", "U+0955", "U+0956", "U+0957", "U+0962", "U+0963", "U+0971", "U+0981",
      "U+09BC", "U+09C1", "U+09C2", "U+09C3", "U+09C4", "U+09CD", "U+09E2", "U+09E3",
      "U+09FE", "U+0A01", "U+0A02", "U+0A3C", "U+0A41", "U+0A42", "U+0A47", "U+0A48",
      "U+0A4B", "U+0A4C", "U+0A4D", "U+0A51", "U+0A70", "U+0A71", "U+0A75", "U+0A81",
      "U+0A82", "U+0ABC", "U+0AC1", "U+0AC2", "U+0AC3", "U+0AC4", "U+0AC5", "U+0AC7",
      "U+0AC8", "U+0ACD", "U+0AE2", "U+0AE3", "U+0AFA", "U+0AFB", "U+0AFC", "U+0AFD",
      "U+0AFE", "U+0AFF", "U+0B01", "U+0B3C", "U+0B3F", "U+0B41", "U+0B42", "U+0B43",
      "U+0B44", "U+0B4D", "U+0B55", "U+0B56", "U+0B62", "U+0B63", "U+0B82", "U+0BC0",
      "U+0BCD", "U+0C00", "U+0C04", "U+0C3C", "U+0C3E", "U+0C3F", "U+0C40", "U+0C46",
      "U+0C47", "U+0C48", "U+0C4A", "U+0C4B", "U+0C4C", "U+0C4D", "U+0C55", "U+0C56",
      "U+0C62", "U+0C63", "U+0C81", "U+0CBC", "U+0CBF", "U+0CC6", "U+0CCC", "U+0CCD",
      "U+0CE2", "U+0CE3", "U+0D00", "U+0D01", "U+0D3B", "U+0D3C", "U+0D41", "U+0D42",
      "U+0D43", "U+0D44", "U+0D4D", "U+0D62", "U+0D63", "U+0D81", "U+0DCA", "U+0DD2",
      "U+0DD3", "U+0DD4", "U+0DD6", "U+0E31", "U+0E34", "U+0E35", "U+0E36", "U+0E37",
      "U+0E38", "U+0E39", "U+0E3A", "U+0E46", "U+0E47", "U+0E48", "U+0E49", "U+0E4A",
      "U+0E4B", "U+0E4C", "U+0E4D", "U+0E4E", "U+0EB1", "U+0EB4", "U+0EB5", "U+0EB6",
      "U+0EB7", "U+0EB8", "U+0EB9", "U+0EBA", "U+0EBB", "U+0EBC", "U+0EC6", "U+0EC8",
      "U+0EC9", "U+0ECA", "U+0ECB", "U+0ECC", "U+0ECD", "U+0F18", "U+0F19", "U+0F35",
      "U+0F37", "U+0F39", "U+0F71", "U+0F72", "U+0F73", "U+0F74", "U+0F75", "U+0F76",
      "U+0F77", "U+0F78", "U+0F79", "U+0F7A", "U+0F7B", "U+0F7C", "U+0F7D", "U+0F7E",
      "U+0F80", "U+0F81", "U+0F82", "U+0F83", "U+0F84", "U+0F86", "U+0F87", "U+0F8D",
      "U+0F8E", "U+0F8F", "U+0F90", "U+0F91", "U+0F92", "U+0F93", "U+0F94", "U+0F95",
      "U+0F96", "U+0F97", "U+0F99", "U+0F9A", "U+0F9B", "U+0F9C", "U+0F9D", "U+0F9E",
      "U+0F9F", "U+0FA0", "U+0FA1", "U+0FA2", "U+0FA3", "U+0FA4", "U+0FA5", "U+0FA6",
      "U+0FA7", "U+0FA8", "U+0FA9", "U+0FAA", "U+0FAB", "U+0FAC", "U+0FAD", "U+0FAE",
      "U+0FAF", "U+0FB0", "U+0FB1", "U+0FB2", "U+0FB3", "U+0FB4", "U+0FB5", "U+0FB6",
      "U+0FB7", "U+0FB8", "U+0FB9", "U+0FBA", "U+0FBB", "U+0FBC", "U+0FC6", "U+102D",
      "U+102E", "U+102F", "U+1030", "U+1032", "U+1033", "U+1034", "U+1035", "U+1036",
      "U+1037", "U+1039", "U+103A", "U+103D", "U+103E", "U+1058", "U+1059", "U+105E",
      "U+105F", "U+1060", "U+1071", "U+1072", "U+1073", "U+1074", "U+1082", "U+1085",
      "U+1086", "U+108D", "U+109D", "U+10FC", "U+135D", "U+135E", "U+135F", "U+1712",
      "U+1713", "U+1714", "U+1732", "U+1733", "U+1752", "U+1753", "U+1772", "U+1773",
      "U+17B4", "U+17B5", "U+17B7", "U+17B8", "U+17B9", "U+17BA", "U+17BB", "U+17BC",
      "U+17BD", "U+17C6", "U+17C9", "U+17CA", "U+17CB", "U+17CC", "U+17CD", "U+17CE",
      "U+17CF", "U+17D0", "U+17D1", "U+17D2", "U+17D3", "U+17D7", "U+17DD", "U+180B",
      "U+180C", "U+180D", "U+180E", "U+180F", "U+1843", "U+1885", "U+1886", "U+18A9",
      "U+1920", "U+1921", "U+1922", "U+1927", "U+1928", "U+1932", "U+1939", "U+193A",
      "U+193B", "U+1A17", "U+1A18", "U+1A1B", "U+1A56", "U+1A58", "U+1A59", "U+1A5A",
      "U+1A5B", "U+1A5C", "U+1A5D", "U+1A5E", "U+1A60", "U+1A62", "U+1A65", "U+1A66",
      "U+1A67", "U+1A68", "U+1A69", "U+1A6A", "U+1A6B", "U+1A6C", "U+1A73", "U+1A74",
      "U+1A75", "U+1A76", "U+1A77", "U+1A78", "U+1A79", "U+1A7A", "U+1A7B", "U+1A7C",
      "U+1A7F", "U+1AA7", "U+1AB0", "U+1AB1", "U+1AB2", "U+1AB3", "U+1AB4", "U+1AB5",
      "U+1AB6", "U+1AB7", "U+1AB8", "U+1AB9", "U+1ABA", "U+1ABB", "U+1ABC", "U+1ABD",
      "U+1ABE", "U+1ABF", "U+1AC0", "U+1AC1", "U+1AC2", "U+1AC3", "U+1AC4", "U+1AC5",
      "U+1AC6", "U+1AC7", "U+1AC8", "U+1AC9", "U+1ACA", "U+1ACB", "U+1ACC", "U+1ACD",
      "U+1ACE", "U+1B00", "U+1B01", "U+1B02", "U+1B03", "U+1B34", "U+1B36", "U+1B37",
      "U+1B38", "U+1B39", "U+1B3A", "U+1B3C", "U+1B42", "U+1B6B", "U+1B6C", "U+1B6D",
      "U+1B6E", "U+1B6F", "U+1B70", "U+1B71", "U+1B72", "U+1B73", "U+1B80", "U+1B81",
      "U+1BA2", "U+1BA3", "U+1BA4", "U+1BA5", "U+1BA8", "U+1BA9", "U+1BAB", "U+1BAC",
      "U+1BAD", "U+1BE6", "U+1BE8", "U+1BE9", "U+1BED", "U+1BEF", "U+1BF0", "U+1BF1",
      "U+1C2C", "U+1C2D", "U+1C2E", "U+1C2F", "U+1C30", "U+1C31", "U+1C32", "U+1C33",
      "U+1C36", "U+1C37", "U+1C78", "U+1C79", "U+1C7A", "U+1C7B", "U+1C7C", "U+1C7D",
      "U+1CD0", "U+1CD1", "U+1CD2", "U+1CD4", "U+1CD5", "U+1CD6", "U+1CD7", "U+1CD8",
      "U+1CD9", "U+1CDA", "U+1CDB", "U+1CDC", "U+1CDD", "U+1CDE", "U+1CDF", "U+1CE0",
      "U+1CE2", "U+1CE3", "U+1CE4", "U+1CE5", "U+1CE6", "U+1CE7", "U+1CE8", "U+1CED",
      "U+1CF4", "U+1CF8", "U+1CF9", "U+1D2C", "U+1D2D", "U+1D2E", "U+1D2F", "U+1D30",
      "U+1D31", "U+1D32", "U+1D33", "U+1D34", "U+1D35", "U+1D36", "U+1D37", "U+1D38",
      "U+1D39", "U+1D3A", "U+1D3B", "U+1D3C", "U+1D3D", "U+1D3E", "U+1D3F", "U+1D40",
      "U+1D41", "U+1D42", "U+1D43", "U+1D44", "U+1D45", "U+1D46", "U+1D47", "U+1D48",
      "U+1D49", "U+1D4A", "U+1D4B", "U+1D4C", "U+1D4D", "U+1D4E", "U+1D4F", "U+1D50",
      "U+1D51", "U+1D52", "U+1D53", "U+1D54", "U+1D55", "U+1D56", "U+1D57", "U+1D58",
      "U+1D59", "U+1D5A", "U+1D5B", "U+1D5C", "U+1D5D", "U+1D5E", "U+1D5F", "U+1D60",
      "U+1D61", "U+1D62", "U+1D63", "U+1D64", "U+1D65", "U+1D66", "U+1D67", "U+1D68",
      "U+1D69", "U+1D6A", "U+1D78", "U+1D9B", "U+1D9C", "U+1D9D", "U+1D9E", "U+1D9F",
      "U+1DA0", "U+1DA1", "U+1DA2", "U+1DA3", "U+1DA4", "U+1DA5", "U+1DA6", "U+1DA7",
      "U+1DA8", "U+1DA9", "U+1DAA", "U+1DAB", "U+1DAC", "U+1DAD", "U+1DAE", "U+1DAF",
      "U+1DB0", "U+1DB1", "U+1DB2", "U+1DB3", "U+1DB4", "U+1DB5", "U+1DB6", "U+1DB7",
      "U+1DB8", "U+1DB9", "U+1DBA", "U+1DBB", "U+1DBC", "U+1DBD", "U+1DBE", "U+1DBF",
      "U+1DC0", "U+1DC1", "U+1DC2", "U+1DC3", "U+1DC4", "U+1DC5", "U+1DC6", "U+1DC7",
      "U+1DC8", "U+1DC9", "U+1DCA", "U+1DCB", "U+1DCC", "U+1DCD", "U+1DCE", "U+1DCF",
      "U+1DD0", "U+1DD1", "U+1DD2", "U+1DD3", "U+1DD4", "U+1DD5", "U+1DD6", "U+1DD7",
      "U+1DD8", "U+1DD9", "U+1DDA", "U+1DDB", "U+1DDC", "U+1DDD", "U+1DDE", "U+1DDF",
      "U+1DE0", "U+1DE1", "U+1DE2", "U+1DE3", "U+1DE4", "U+1DE5", "U+1DE6", "U+1DE7",
      "U+1DE8", "U+1DE9", "U+1DEA", "U+1DEB", "U+1DEC", "U+1DED", "U+1DEE", "U+1DEF",
      "U+1DF0", "U+1DF1", "U+1DF2", "U+1DF3", "U+1DF4", "U+1DF5", "U+1DF6", "U+1DF7",
      "U+1DF8", "U+1DF9", "U+1DFA", "U+1DFB", "U+1DFC", "U+1DFD", "U+1DFE", "U+1DFF",
      "U+1FBD", "U+1FBF", "U+1FC0", "U+1FC1", "U+1FCD", "U+1FCE", "U+1FCF", "U+1FDD",
      "U+1FDE", "U+1FDF", "U+1FED", "U+1FEE", "U+1FEF", "U+1FFD", "U+1FFE", "U+200B",
      "U+200C", "U+200D", "U+200E", "U+200F", "U+2018", "U+2019", "U+2024", "U+2027",
      "U+202A", "U+202B", "U+202C", "U+202D", "U+202E", "U+2060", "U+2061", "U+2062",
      "U+2063", "U+2064", "U+2066", "U+2067", "U+2068", "U+2069", "U+206A", "U+206B",
      "U+206C", "U+206D", "U+206E", "U+206F", "U+2071", "U+207F", "U+2090", "U+2091",
      "U+2092", "U+2093", "U+2094", "U+2095", "U+2096", "U+2097", "U+2098", "U+2099",
      "U+209A", "U+209B", "U+209C", "U+20D0", "U+20D1", "U+20D2", "U+20D3", "U+20D4",
      "U+20D5", "U+20D6", "U+20D7", "U+20D8", "U+20D9", "U+20DA", "U+20DB", "U+20DC",
      "U+20DD", "U+20DE", "U+20DF", "U+20E0", "U+20E1", "U+20E2", "U+20E3", "U+20E4",
      "U+20E5", "U+20E6", "U+20E7", "U+20E8", "U+20E9", "U+20EA", "U+20EB", "U+20EC",
      "U+20ED", "U+20EE", "U+20EF", "U+20F0", "U+2C7C", "U+2C7D", "U+2CEF", "U+2CF0",
      "U+2CF1", "U+2D6F", "U+2D7F", "U+2DE0", "U+2DE1", "U+2DE2", "U+2DE3", "U+2DE4",
      "U+2DE5", "U+2DE6", "U+2DE7", "U+2DE8", "U+2DE9", "U+2DEA", "U+2DEB", "U+2DEC",
      "U+2DED", "U+2DEE", "U+2DEF", "U+2DF0", "U+2DF1", "U+2DF2", "U+2DF3", "U+2DF4",
      "U+2DF5", "U+2DF6", "U+2DF7", "U+2DF8", "U+2DF9", "U+2DFA", "U+2DFB", "U+2DFC",
      "U+2DFD", "U+2DFE", "U+2DFF", "U+2E2F", "U+3005", "U+302A", "U+302B", "U+302C",
      "U+302D", "U+3031", "U+3032", "U+3033", "U+3034", "U+3035", "U+303B", "U+3099",
      "U+309A", "U+309B", "U+309C", "U+309D", "U+309E", "U+30FC", "U+30FD", "U+30FE",
      "U+A015", "U+A4F8", "U+A4F9", "U+A4FA", "U+A4FB", "U+A4FC", "U+A4FD", "U+A60C",
      "U+A66F", "U+A670", "U+A671", "U+A672", "U+A674", "U+A675", "U+A676", "U+A677",
      "U+A678", "U+A679", "U+A67A", "U+A67B", "U+A67C", "U+A67D", "U+A67F", "U+A69C",
      "U+A69D", "U+A69E", "U+A69F", "U+A6F0", "U+A6F1", "U+A700", "U+A701", "U+A702",
      "U+A703", "U+A704", "U+A705", "U+A706", "U+A707", "U+A708", "U+A709", "U+A70A",
      "U+A70B", "U+A70C", "U+A70D", "U+A70E", "U+A70F", "U+A710", "U+A711", "U+A712",
      "U+A713", "U+A714", "U+A715", "U+A716", "U+A717", "U+A718", "U+A719", "U+A71A",
      "U+A71B", "U+A71C", "U+A71D", "U+A71E", "U+A71F", "U+A720", "U+A721", "U+A770",
      "U+A788", "U+A789", "U+A78A", "U+A7F2", "U+A7F3", "U+A7F4", "U+A7F8", "U+A7F9",
      "U+A802", "U+A806", "U+A80B", "U+A825", "U+A826", "U+A82C", "U+A8C4", "U+A8C5",
      "U+A8E0", "U+A8E1", "U+A8E2", "U+A8E3", "U+A8E4", "U+A8E5", "U+A8E6", "U+A8E7",
      "U+A8E8", "U+A8E9", "U+A8EA", "U+A8EB", "U+A8EC", "U+A8ED", "U+A8EE", "U+A8EF",
      "U+A8F0", "U+A8F1", "U+A8FF", "U+A926", "U+A927", "U+A928", "U+A929", "U+A92A",
      "U+A92B", "U+A92C", "U+A92D", "U+A947", "U+A948", "U+A949", "U+A94A", "U+A94B",
      "U+A94C", "U+A94D", "U+A94E", "U+A94F", "U+A950", "U+A951", "U+A980", "U+A981",
      "U+A982", "U+A9B3", "U+A9B6", "U+A9B7", "U+A9B8", "U+A9B9", "U+A9BC", "U+A9BD",
      "U+A9CF", "U+A9E5", "U+A9E6", "U+AA29", "U+AA2A", "U+AA2B", "U+AA2C", "U+AA2D",
      "U+AA2E", "U+AA31", "U+AA32", "U+AA35", "U+AA36", "U+AA43", "U+AA4C", "U+AA70",
      "U+AA7C", "U+AAB0", "U+AAB2", "U+AAB3", "U+AAB4", "U+AAB7", "U+AAB8", "U+AABE",
      "U+AABF", "U+AAC1", "U+AADD", "U+AAEC", "U+AAED", "U+AAF3", "U+AAF4", "U+AAF6",
      "U+AB5B", "U+AB5C", "U+AB5D", "U+AB5E", "U+AB5F", "U+AB69", "U+AB6A", "U+AB6B",
      "U+ABE5", "U+ABE8", "U+ABED", "U+FB1E", "U+FBB2", "U+FBB3", "U+FBB4", "U+FBB5",
      "U+FBB6", "U+FBB7", "U+FBB8", "U+FBB9", "U+FBBA", "U+FBBB", "U+FBBC", "U+FBBD",
      "U+FBBE", "U+FBBF", "U+FBC0", "U+FBC1", "U+FBC2", "U+FE00", "U+FE01", "U+FE02",
      "U+FE03", "U+FE04", "U+FE05", "U+FE06", "U+FE07", "U+FE08", "U+FE09", "U+FE0A",
      "U+FE0B", "U+FE0C", "U+FE0D", "U+FE0E", "U+FE0F", "U+FE13", "U+FE20", "U+FE21",
      "U+FE22", "U+FE23", "U+FE24", "U+FE25", "U+FE26", "U+FE27", "U+FE28", "U+FE29",
      "U+FE2A", "U+FE2B", "U+FE2C", "U+FE2D", "U+FE2E", "U+FE2F", "U+FE52", "U+FE55",
      "U+FEFF", "U+FF07", "U+FF0E", "U+FF1A", "U+FF3E", "U+FF40", "U+FF70", "U+FF9E",
      "U+FF9F", "U+FFE3", "U+FFF9", "U+FFFA", "U+FFFB", "U+101FD", "U+102E0", "U+10376",
      "U+10377", "U+10378", "U+10379", "U+1037A", "U+10780", "U+10781", "U+10782", "U+10783",
      "U+10784", "U+10785", "U+10787", "U+10788", "U+10789", "U+1078A", "U+1078B", "U+1078C",
      "U+1078D", "U+1078E", "U+1078F", "U+10790", "U+10791", "U+10792", "U+10793", "U+10794",
      "U+10795", "U+10796", "U+10797", "U+10798", "U+10799", "U+1079A", "U+1079B", "U+1079C",
      "U+1079D", "U+1079E", "U+1079F", "U+107A0", "U+107A1", "U+107A2", "U+107A3", "U+107A4",
      "U+107A5", "U+107A6", "U+107A7", "U+107A8", "U+107A9", "U+107AA", "U+107AB", "U+107AC",
      "U+107AD", "U+107AE", "U+107AF", "U+107B0", "U+107B2", "U+107B3", "U+107B4", "U+107B5",
      "U+107B6", "U+107B7", "U+107B8", "U+107B9", "U+107BA", "U+10A01", "U+10A02", "U+10A03",
      "U+10A05", "U+10A06", "U+10A0C", "U+10A0D", "U+10A0E", "U+10A0F", "U+10A38", "U+10A39",
      "U+10A3A", "U+10A3F", "U+10AE5", "U+10AE6", "U+10D24", "U+10D25", "U+10D26", "U+10D27",
      "U+10EAB", "U+10EAC", "U+10F46", "U+10F47", "U+10F48", "U+10F49", "U+10F4A", "U+10F4B",
      "U+10F4C", "U+10F4D", "U+10F4E", "U+10F4F", "U+10F50", "U+10F82", "U+10F83", "U+10F84",
      "U+10F85", "U+11001", "U+11038", "U+11039", "U+1103A", "U+1103B", "U+1103C", "U+1103D",
      "U+1103E", "U+1103F", "U+11040", "U+11041", "U+11042", "U+11043", "U+11044", "U+11045",
      "U+11046", "U+11070", "U+11073", "U+11074", "U+1107F", "U+11080", "U+11081", "U+110B3",
      "U+110B4", "U+110B5", "U+110B6", "U+110B9", "U+110BA", "U+110BD", "U+110C2", "U+110CD",
      "U+11100", "U+11101", "U+11102", "U+11127", "U+11128", "U+11129", "U+1112A", "U+1112B",
      "U+1112D", "U+1112E", "U+1112F", "U+11130", "U+11131", "U+11132", "U+11133", "U+11134",
      "U+11173", "U+11180", "U+11181", "U+111B6", "U+111B7", "U+111B8", "U+111B9", "U+111BA",
      "U+111BB", "U+111BC", "U+111BD", "U+111BE", "U+111C9", "U+111CA", "U+111CB", "U+111CC",
      "U+111CF", "U+1122F", "U+11230", "U+11231", "U+11234", "U+11236", "U+11237", "U+1123E",
      "U+112DF", "U+112E3", "U+112E4", "U+112E5", "U+112E6", "U+112E7", "U+112E8", "U+112E9",
      "U+112EA", "U+11300", "U+11301", "U+1133B", "U+1133C", "U+11340", "U+11366", "U+11367",
      "U+11368", "U+11369", "U+1136A", "U+1136B", "U+1136C", "U+11370", "U+11371", "U+11372",
      "U+11373", "U+11374", "U+11438", "U+11439", "U+1143A", "U+1143B", "U+1143C", "U+1143D",
      "U+1143E", "U+1143F", "U+11442", "U+11443", "U+11444", "U+11446", "U+1145E", "U+114B3",
      "U+114B4", "U+114B5", "U+114B6", "U+114B7", "U+114B8", "U+114BA", "U+114BF", "U+114C0",
      "U+114C2", "U+114C3", "U+115B2", "U+115B3", "U+115B4", "U+115B5", "U+115BC", "U+115BD",
      "U+115BF", "U+115C0", "U+115DC", "U+115DD", "U+11633", "U+11634", "U+11635", "U+11636",
      "U+11637", "U+11638", "U+11639", "U+1163A", "U+1163D", "U+1163F", "U+11640", "U+116AB",
      "U+116AD", "U+116B0", "U+116B1", "U+116B2", "U+116B3", "U+116B4", "U+116B5", "U+116B7",
      "U+1171D", "U+1171E", "U+1171F", "U+11722", "U+11723", "U+11724", "U+11725", "U+11727",
      "U+11728", "U+11729", "U+1172A", "U+1172B", "U+1182F", "U+11830", "U+11831", "U+11832",
      "U+11833", "U+11834", "U+11835", "U+11836", "U+11837", "U+11839", "U+1183A", "U+1193B",
      "U+1193C", "U+1193E", "U+11943", "U+119D4", "U+119D5", "U+119D6", "U+119D7", "U+119DA",
      "U+119DB", "U+119E0", "U+11A01", "U+11A02", "U+11A03", "U+11A04", "U+11A05", "U+11A06",
      "U+11A07", "U+11A08", "U+11A09", "U+11A0A", "U+11A33", "U+11A34", "U+11A35", "U+11A36",
      "U+11A37", "U+11A38", "U+11A3B", "U+11A3C", "U+11A3D", "U+11A3E", "U+11A47", "U+11A51",
      "U+11A52", "U+11A53", "U+11A54", "U+11A55", "U+11A56", "U+11A59", "U+11A5A", "U+11A5B",
      "U+11A8A", "U+11A8B", "U+11A8C", "U+11A8D", "U+11A8E", "U+11A8F", "U+11A90", "U+11A91",
      "U+11A92", "U+11A93", "U+11A94", "U+11A95", "U+11A96", "U+11A98", "U+11A99", "U+11C30",
      "U+11C31", "U+11C32", "U+11C33", "U+11C34", "U+11C35", "U+11C36", "U+11C38", "U+11C39",
      "U+11C3A", "U+11C3B", "U+11C3C", "U+11C3D", "U+11C3F", "U+11C92", "U+11C93", "U+11C94",
      "U+11C95", "U+11C96", "U+11C97", "U+11C98", "U+11C99", "U+11C9A", "U+11C9B", "U+11C9C",
      "U+11C9D", "U+11C9E", "U+11C9F", "U+11CA0", "U+11CA1", "U+11CA2", "U+11CA3", "U+11CA4",
      "U+11CA5", "U+11CA6", "U+11CA7", "U+11CAA", "U+11CAB", "U+11CAC", "U+11CAD", "U+11CAE",
      "U+11CAF", "U+11CB0", "U+11CB2", "U+11CB3", "U+11CB5", "U+11CB6", "U+11D31", "U+11D32",
      "U+11D33", "U+11D34", "U+11D35", "U+11D36", "U+11D3A", "U+11D3C", "U+11D3D", "U+11D3F",
      "U+11D40", "U+11D41", "U+11D42", "U+11D43", "U+11D44", "U+11D45", "U+11D47", "U+11D90",
      "U+11D91", "U+11D95", "U+11D97", "U+11EF3", "U+11EF4", "U+13430", "U+13431", "U+13432",
      "U+13433", "U+13434", "U+13435", "U+13436", "U+13437", "U+13438", "U+16AF0", "U+16AF1",
      "U+16AF2", "U+16AF3", "U+16AF4", "U+16B30", "U+16B31", "U+16B32", "U+16B33", "U+16B34",
      "U+16B35", "U+16B36", "U+16B40", "U+16B41", "U+16B42", "U+16B43", "U+16F4F", "U+16F8F",
      "U+16F90", "U+16F91", "U+16F92", "U+16F93", "U+16F94", "U+16F95", "U+16F96", "U+16F97",
      "U+16F98", "U+16F99", "U+16F9A", "U+16F9B", "U+16F9C", "U+16F9D", "U+16F9E", "U+16F9F",
      "U+16FE0", "U+16FE1", "U+16FE3", "U+16FE4", "U+1AFF0", "U+1AFF1", "U+1AFF2", "U+1AFF3",
      "U+1AFF5", "U+1AFF6", "U+1AFF7", "U+1AFF8", "U+1AFF9", "U+1AFFA", "U+1AFFB", "U+1AFFD",
      "U+1AFFE", "U+1BC9D", "U+1BC9E", "U+1BCA0", "U+1BCA1", "U+1BCA2", "U+1BCA3", "U+1CF00",
      "U+1CF01", "U+1CF02", "U+1CF03", "U+1CF04", "U+1CF05", "U+1CF06", "U+1CF07", "U+1CF08",
      "U+1CF09", "U+1CF0A", "U+1CF0B", "U+1CF0C", "U+1CF0D", "U+1CF0E", "U+1CF0F", "U+1CF10",
      "U+1CF11", "U+1CF12", "U+1CF13", "U+1CF14", "U+1CF15", "U+1CF16", "U+1CF17", "U+1CF18",
      "U+1CF19", "U+1CF1A", "U+1CF1B", "U+1CF1C", "U+1CF1D", "U+1CF1E", "U+1CF1F", "U+1CF20",
      "U+1CF21", "U+1CF22", "U+1CF23", "U+1CF24", "U+1CF25", "U+1CF26", "U+1CF27", "U+1CF28",
      "U+1CF29", "U+1CF2A", "U+1CF2B", "U+1CF2C", "U+1CF2D", "U+1CF30", "U+1CF31", "U+1CF32",
      "U+1CF33", "U+1CF34", "U+1CF35", "U+1CF36", "U+1CF37", "U+1CF38", "U+1CF39", "U+1CF3A",
      "U+1CF3B", "U+1CF3C", "U+1CF3D", "U+1CF3E", "U+1CF3F", "U+1CF40", "U+1CF41", "U+1CF42",
      "U+1CF43", "U+1CF44", "U+1CF45", "U+1CF46", "U+1D167", "U+1D168", "U+1D169", "U+1D173",
      "U+1D174", "U+1D175", "U+1D176", "U+1D177", "U+1D178", "U+1D179", "U+1D17A", "U+1D17B",
      "U+1D17C", "U+1D17D", "U+1D17E", "U+1D17F", "U+1D180", "U+1D181", "U+1D182", "U+1D185",
      "U+1D186", "U+1D187", "U+1D188", "U+1D189", "U+1D18A", "U+1D18B", "U+1D1AA", "U+1D1AB",
      "U+1D1AC", "U+1D1AD", "U+1D242", "U+1D243", "U+1D244", "U+1DA00", "U+1DA01", "U+1DA02",
      "U+1DA03", "U+1DA04", "U+1DA05", "U+1DA06", "U+1DA07", "U+1DA08", "U+1DA09", "U+1DA0A",
      "U+1DA0B", "U+1DA0C", "U+1DA0D", "U+1DA0E", "U+1DA0F", "U+1DA10", "U+1DA11", "U+1DA12",
      "U+1DA13", "U+1DA14", "U+1DA15", "U+1DA16", "U+1DA17", "U+1DA18", "U+1DA19", "U+1DA1A",
      "U+1DA1B", "U+1DA1C", "U+1DA1D", "U+1DA1E", "U+1DA1F", "U+1DA20", "U+1DA21", "U+1DA22",
      "U+1DA23", "U+1DA24", "U+1DA25", "U+1DA26", "U+1DA27", "U+1DA28", "U+1DA29", "U+1DA2A",
      "U+1DA2B", "U+1DA2C", "U+1DA2D", "U+1DA2E", "U+1DA2F", "U+1DA30", "U+1DA31", "U+1DA32",
      "U+1DA33", "U+1DA34", "U+1DA35", "U+1DA36", "U+1DA3B", "U+1DA3C", "U+1DA3D", "U+1DA3E",
      "U+1DA3F", "U+1DA40", "U+1DA41", "U+1DA42", "U+1DA43", "U+1DA44", "U+1DA45", "U+1DA46",
      "U+1DA47", "U+1DA48", "U+1DA49", "U+1DA4A", "U+1DA4B", "U+1DA4C", "U+1DA4D", "U+1DA4E",
      "U+1DA4F", "U+1DA50", "U+1DA51", "U+1DA52", "U+1DA53", "U+1DA54", "U+1DA55", "U+1DA56",
      "U+1DA57", "U+1DA58", "U+1DA59", "U+1DA5A", "U+1DA5B", "U+1DA5C", "U+1DA5D", "U+1DA5E",
      "U+1DA5F", "U+1DA60", "U+1DA61", "U+1DA62", "U+1DA63", "U+1DA64", "U+1DA65", "U+1DA66",
      "U+1DA67", "U+1DA68", "U+1DA69", "U+1DA6A", "U+1DA6B", "U+1DA6C", "U+1DA75", "U+1DA84",
      "U+1DA9B", "U+1DA9C", "U+1DA9D", "U+1DA9E", "U+1DA9F", "U+1DAA1", "U+1DAA2", "U+1DAA3",
      "U+1DAA4", "U+1DAA5", "U+1DAA6", "U+1DAA7", "U+1DAA8", "U+1DAA9", "U+1DAAA", "U+1DAAB",
      "U+1DAAC", "U+1DAAD", "U+1DAAE", "U+1DAAF", "U+1E000", "U+1E001", "U+1E002", "U+1E003",
      "U+1E004", "U+1E005", "U+1E006", "U+1E008", "U+1E009", "U+1E00A", "U+1E00B", "U+1E00C",
      "U+1E00D", "U+1E00E", "U+1E00F", "U+1E010", "U+1E011", "U+1E012", "U+1E013", "U+1E014",
      "U+1E015", "U+1E016", "U+1E017", "U+1E018", "U+1E01B", "U+1E01C", "U+1E01D", "U+1E01E",
      "U+1E01F", "U+1E020", "U+1E021", "U+1E023", "U+1E024", "U+1E026", "U+1E027", "U+1E028",
      "U+1E029", "U+1E02A", "U+1E130", "U+1E131", "U+1E132", "U+1E133", "U+1E134", "U+1E135",
      "U+1E136", "U+1E137", "U+1E138", "U+1E139", "U+1E13A", "U+1E13B", "U+1E13C", "U+1E13D",
      "U+1E2AE", "U+1E2EC", "U+1E2ED", "U+1E2EE", "U+1E2EF", "U+1E8D0", "U+1E8D1", "U+1E8D2",
      "U+1E8D3", "U+1E8D4", "U+1E8D5", "U+1E8D6", "U+1E944", "U+1E945", "U+1E946", "U+1E947",
      "U+1E948", "U+1E949", "U+1E94A", "U+1E94B", "U+1F3FB", "U+1F3FC", "U+1F3FD", "U+1F3FE",
      "U+1F3FF", "U+E0001", "U+E0020", "U+E0021", "U+E0022", "U+E0023", "U+E0024", "U+E0025",
      "U+E0026", "U+E0027", "U+E0028", "U+E0029", "U+E002A", "U+E002B", "U+E002C", "U+E002D",
      "U+E002E", "U+E002F", "U+E0030", "U+E0031", "U+E0032", "U+E0033", "U+E0034", "U+E0035",
      "U+E0036", "U+E0037", "U+E0038", "U+E0039", "U+E003A", "U+E003B", "U+E003C", "U+E003D",
      "U+E003E", "U+E003F", "U+E0040", "U+E0041", "U+E0042", "U+E0043", "U+E0044", "U+E0045",
      "U+E0046", "U+E0047", "U+E0048", "U+E0049", "U+E004A", "U+E004B", "U+E004C", "U+E004D",
      "U+E004E", "U+E004F", "U+E0050", "U+E0051", "U+E0052", "U+E0053", "U+E0054", "U+E0055",
      "U+E0056", "U+E0057", "U+E0058", "U+E0059", "U+E005A", "U+E005B", "U+E005C", "U+E005D",
      "U+E005E", "U+E005F", "U+E0060", "U+E0061", "U+E0062", "U+E0063", "U+E0064", "U+E0065",
      "U+E0066", "U+E0067", "U+E0068", "U+E0069", "U+E006A", "U+E006B", "U+E006C", "U+E006D",
      "U+E006E", "U+E006F", "U+E0070", "U+E0071", "U+E0072", "U+E0073", "U+E0074", "U+E0075",
      "U+E0076", "U+E0077", "U+E0078", "U+E0079", "U+E007A", "U+E007B", "U+E007C", "U+E007D",
      "U+E007E", "U+E007F", "U+E0100", "U+E0101", "U+E0102", "U+E0103", "U+E0104", "U+E0105",
      "U+E0106", "U+E0107", "U+E0108", "U+E0109", "U+E010A", "U+E010B", "U+E010C", "U+E010D",
      "U+E010E", "U+E010F", "U+E0110", "U+E0111", "U+E0112", "U+E0113", "U+E0114", "U+E0115",
      "U+E0116", "U+E0117", "U+E0118", "U+E0119", "U+E011A", "U+E011B", "U+E011C", "U+E011D",
      "U+E011E", "U+E011F", "U+E0120", "U+E0121", "U+E0122", "U+E0123", "U+E0124", "U+E0125",
      "U+E0126", "U+E0127", "U+E0128", "U+E0129", "U+E012A", "U+E012B", "U+E012C", "U+E012D",
      "U+E012E", "U+E012F", "U+E0130", "U+E0131", "U+E0132", "U+E0133", "U+E0134", "U+E0135",
      "U+E0136", "U+E0137", "U+E0138", "U+E0139", "U+E013A", "U+E013B", "U+E013C", "U+E013D",
      "U+E013E", "U+E013F", "U+E0140", "U+E0141", "U+E0142", "U+E0143", "U+E0144", "U+E0145",
      "U+E0146", "U+E0147", "U+E0148", "U+E0149", "U+E014A", "U+E014B", "U+E014C", "U+E014D",
      "U+E014E", "U+E014F", "U+E0150", "U+E0151", "U+E0152", "U+E0153", "U+E0154", "U+E0155",
      "U+E0156", "U+E0157", "U+E0158", "U+E0159", "U+E015A", "U+E015B", "U+E015C", "U+E015D",
      "U+E015E", "U+E015F", "U+E0160", "U+E0161", "U+E0162", "U+E0163", "U+E0164", "U+E0165",
      "U+E0166", "U+E0167", "U+E0168", "U+E0169", "U+E016A", "U+E016B", "U+E016C", "U+E016D",
      "U+E016E", "U+E016F", "U+E0170", "U+E0171", "U+E0172", "U+E0173", "U+E0174", "U+E0175",
      "U+E0176", "U+E0177", "U+E0178", "U+E0179", "U+E017A", "U+E017B", "U+E017C", "U+E017D",
      "U+E017E", "U+E017F", "U+E0180", "U+E0181", "U+E0182", "U+E0183", "U+E0184", "U+E0185",
      "U+E0186", "U+E0187", "U+E0188", "U+E0189", "U+E018A", "U+E018B", "U+E018C", "U+E018D",
      "U+E018E", "U+E018F", "U+E0190", "U+E0191", "U+E0192", "U+E0193", "U+E0194", "U+E0195",
      "U+E0196", "U+E0197", "U+E0198", "U+E0199", "U+E019A", "U+E019B", "U+E019C", "U+E019D",
      "U+E019E", "U+E019F", "U+E01A0", "U+E01A1", "U+E01A2", "U+E01A3", "U+E01A4", "U+E01A5",
      "U+E01A6", "U+E01A7", "U+E01A8", "U+E01A9", "U+E01AA", "U+E01AB", "U+E01AC", "U+E01AD",
      "U+E01AE", "U+E01AF", "U+E01B0", "U+E01B1", "U+E01B2", "U+E01B3", "U+E01B4", "U+E01B5",
      "U+E01B6", "U+E01B7", "U+E01B8", "U+E01B9", "U+E01BA", "U+E01BB", "U+E01BC", "U+E01BD",
      "U+E01BE", "U+E01BF", "U+E01C0", "U+E01C1", "U+E01C2", "U+E01C3", "U+E01C4", "U+E01C5",
      "U+E01C6", "U+E01C7", "U+E01C8", "U+E01C9", "U+E01CA", "U+E01CB", "U+E01CC", "U+E01CD",
      "U+E01CE", "U+E01CF", "U+E01D0", "U+E01D1", "U+E01D2", "U+E01D3", "U+E01D4", "U+E01D5",
      "U+E01D6", "U+E01D7", "U+E01D8", "U+E01D9", "U+E01DA", "U+E01DB", "U+E01DC", "U+E01DD",
      "U+E01DE", "U+E01DF", "U+E01E0", "U+E01E1", "U+E01E2", "U+E01E3", "U+E01E4", "U+E01E5",
      "U+E01E6", "U+E01E7", "U+E01E8", "U+E01E9", "U+E01EA", "U+E01EB", "U+E01EC", "U+E01ED",
      "U+E01EE", "U+E01EF"
    }

\* the cased characters that have no case mapping and are not
\* Case_Ignorable
CasedOther ==
    {
      "U+00AA", "U+00BA", "U+0138", "U+018D", "U+019B", "U+01AA", "U+01AB", "U+01BA",
      "U+01BE", "U+0221", "U+0234", "U+0235", "U+0236", "U+0237", "U+0238", "U+0239",
      "U+0255", "U+0258", "U+025A", "U+025D", "U+025E", "U+025F", "U+0262", "U+0264",
      "U+0267", "U+026D", "U+026E", "U+0270", "U+0273", "U+0274", "U+0276", "U+0277",
      "U+0278", "U+0279", "U+027A", "U+027B", "U+027C", "U+027E", "U+027F", "U+0281",
      "U+0284", "U+0285", "U+0286", "U+028D", "U+028E", "U+028F", "U+0290", "U+0291",
      "U+0293", "U+0295", "U+0296", "U+0297", "U+0298", "U+0299", "U+029A", "U+029B",
      "U+029C", "U+029F", "U+02A0", "U+02A1", "U+02A2", "U+02A3", "U+02A4", "U+02A5",
      "U+02A6", "U+02A7", "U+02A8", "U+02A9", "U+02AA", "U+02AB", "U+02AC", "U+02AD",
      "U+02AE", "U+02AF", "U+03D2", "U+03D3", "U+03D4", "U+03FC", "U+0560", "U+0588",
      "U+1D00", "U+1D01", "U+1D02", "U+1D03", "U+1D04", "U+1D05", "U+1D06", "U+1D07",
      "U+1D08", "U+1D09", "U+1D0A", "U+1D0B", "U+1D0C", "U+1D0D", "U+1D0E", "U+1D0F",
      "U+1D10", "U+1D11", "U+1D12", "U+1D13", "U+1D14", "U+1D15", "U+1D16", "U+1D17",
      "U+1D18", "U+1D19", "U+1D1A", "U+1D1B", "U+1D1C", "U+1D1D", "U+1D1E", "U+1D1F",
      "U+1D20", "U+1D21", "U+1D22", "U+1D23", "U+1D24", "U+1D25", "U+1D26", "U+1D27",
      "U+1D28", "U+1D29", "U+1D2A", "U+1D2B", "U+1D6B", "U+1D6C", "U+1D6D", "U+1D6E",
      "U+1D6F", "U+1D70", "U+1D71", "U+1D72", "U+1D73", "U+1D74", "U+1D75", "U+1D76",
      "U+1D77", "U+1D7A", "U+1D7B", "U+1D7C", "U+1D7E", "U+1D7F", "U+1D80", "U+1D81",
      "U+1D82", "U+1D83", "U+1D84", "U+1D85", "U+1D86", "U+1D87", "U+1D88", "U+1D89",
      "U+1D8A", "U+1D8B", "U+1D8C", "U+1D8D", "U+1D8F", "U+1D90", "U+1D91", "U+1D92",
      "U+1D93", "U+1D94", "U+1D95", "U+1D96", "U+1D97", "U+1D98", "U+1D99", "U+1D9A",
      "U+1E9C", "U+1E9D", "U+1E9F", "U+2102", "U+2107", "U+210A", "U+210B", "U+210C",
      "U+210D", "U+210E", "U+210F", "U+2110", "U+2111", "U+2112", "U+2113", "U+2115",
      "U+2119", "U+211A", "U+211B", "U+211C", "U+211D", "U+2124", "U+2128", "U+212C",
      "U+212D", "U+212F", "U+2130", "U+2131", "U+2133", "U+2134", "U+2139", "U+213C",
      "U+213D", "U+213E", "U+213F", "U+2145", "U+2146", "U+2147", "U+2148", "U+2149",
      "U+2C71", "U+2C74", "U+2C77", "U+2C78", "U+2C79", "U+2C7A", "U+2C7B", "U+2CE4",
      "U+A730", "U+A731", "U+A771", "U+A772", "U+A773", "U+A774", "U+A775", "U+A776",
      "U+A777", "U+A778", "U+A78E", "U+A795", "U+A7AF", "U+A7D3", "U+A7D5", "U+A7FA",
      "U+AB30", "U+AB31", "U+AB32", "U+AB33", "U+AB34", "U+AB35", "U+AB36", "U+AB37",
      "U+AB38", "U+AB39", "U+AB3A", "U+AB3B", "U+AB3C", "U+AB3D", "U+AB3E", "U+AB3F",
      "U+AB40", "U+AB41", "U+AB42", "U+AB43", "U+AB44", "U+AB45", "U+AB46", "U+AB47",
      "U+AB48", "U+AB49", "U+AB4A", "U+AB4B", "U+AB4C", "U+AB4D", "U+AB4E", "U+AB4F",
      "U+AB50", "U+AB51", "U+AB52", "U+AB54", "U+AB55", "U+AB56", "U+AB57", "U+AB58",
      "U+AB59", "U+AB5A", "U+AB60", "U+AB61", "U+AB62", "U+AB63", "U+AB64", "U+AB65",
      "U+AB66", "U+AB67", "U+AB68", "U+1D400", "U+1D401", "U+1D402", "U+1D403", "U+1D404",
      "U+1D405", "U+1D406", "U+1D407", "U+1D408", "U+1D409", "U+1D40A", "U+1D40B", "U+1D40C",
      "U+1D40D", "U+1D40E", "U+1D40F", "U+1D410", "U+1D411", "U+1D412", "U+1D413", "U+1D414",
      "U+1D415", "U+1D416", "U+1D417", "U+1D418", "U+1D419", "U+1D41A", "U+1D41B", "U+1D41C",
      "U+1D41D", "U+1D41E", "U+1D41F", "U+1D420", "U+1D421", "U+1D422", "U+1D423", "U+1D424",
      "U+1D425", "U+1D426", "U+1D427", "U+1D428", "U+1D429", "U+1D42A", "U+1D42B", "U+1D42C",
      "U+1D42D", "U+1D42E", "U+1D42F", "U+1D430", "U+1D431", "U+1D432", "U+1D433", "U+1D434",
      "U+1D435", "U+1D436", "U+1D437", "U+1D438", "U+1D439", "U+1D43A", "U+1D43B", "U+1D43C",
      "U+1D43D", "U+1D43E", "U+1D43F", "U+1D440", "U+1D441", "U+1D442", "U+1D443", "U+1D444",
      "U+1D445", "U+1D446", "U+1D447", "U+1D448", "U+1D449", "U+1D44A", "U+1D44B", "U+1D44C",
      "U+1D44D", "U+1D44E", "U+1D44F", "U+1D450", "U+1D451", "U+1D452", "U+1D453", "U+1D454",
      "U+1D456", "U+1D457", "U+1D458", "U+1D459", "U+1D45A", "U+1D45B", "U+1D45C", "U+1D45D",
      "U+1D45E", "U+1D45F", "U+1D460", "U+1D461", "U+1D462", "U+1D463", "U+1D464", "U+1D465",
      "U+1D466", "U+1D467", "U+1D468", "U+1D469", "U+1D46A", "U+1D46B", "U+1D46C", "U+1D46D",
      "U+1D46E", "U+1D46F", "U+1D470", "U+1D471", "U+1D472", "U+1D473", "U+1D474", "U+1D475",
      "U+1D476", "U+1D477", "U+1D478", "U+1D479", "U+1D47A", "U+1D47B", "U+1D47C", "U+1D47D",
      "U+1D47E", "U+1D47F", "U+1D480", "U+1D481", "U+1D482", "U+1D483", "U+1D484", "U+1D485",
      "U+1D486", "U+1D487", "U+1D488", "U+1D489", "U+1D48A", "U+1D48B", "U+1D48C", "U+1D48D",
      "U+1D48E", "U+1D48F", "U+1D490", "U+1D491", "U+1D492", "U+1D493", "U+1D494", "U+1D495",
      "U+1D496", "U+1D497", "U+1D498", "U+1D499", "U+1D49A", "U+1D49B", "U+1D49C", "U+1D49E",
      "U+1D49F", "U+1D4A2", "U+1D4A5", "U+1D4A6", "U+1D4A9", "U+1D4AA", "U+1D4AB", "U+1D4AC",
      "U+1D4AE", "U+1D4AF", "U+1D4B0", "U+1D4B1", "U+1D4B2", "U+1D4B3", "U+1D4B4", "U+1D4B5",
      "U+1D4B6", "U+1D4B7", "U+1D4B8", "U+1D4B9", "U+1D4BB", "U+1D4BD", "U+1D4BE", "U+1D4BF",
      "U+1D4C0", "U+1D4C1", "U+1D4C2", "U+1D4C3", "U+1D4C5", "U+1D4C6", "U+1D4C7", "U+1D4C8",
      "U+1D4C9", "U+1D4CA", "U+1D4CB", "U+1D4CC", "U+1D4CD", "U+1D4CE", "U+1D4CF", "U+1D4D0",
      "U+1D4D1", "U+1D4D2", "U+1D4D3", "U+1D4D4", "U+1D4D5", "U+1D4D6", "U+1D4D7", "U+1D4D8",
      "U+1D4D9", "U+1D4DA", "U+1D4DB", "U+1D4DC", "U+1D4DD", "U+1D4DE", "U+1D4DF", "U+1D4E0",
      "U+1D4E1", "U+1D4E2", "U+1D4E3", "U+1D4E4", "U+1D4E5", "U+1D4E6", "U+1D4E7", "U+1D4E8",
      "U+1D4E9", "U+1D4EA", "U+1D4EB", "U+1D4EC", "U+1D4ED", "U+1D4EE", "U+1D4EF", "U+1D4F0",
      "U+1D4F1", "U+1D4F2", "U+1D4F3", "U+1D4F4", "U+1D4F5", "U+1D4F6", "U+1D4F7", "U+1D4F8",
      "U+1D4F9", "U+1D4FA", "U+1D4FB", "U+1D4FC", "U+1D4FD", "U+1D4FE", "U+1D4FF", "U+1D500",
      "U+1D501", "U+1D502", "U+1D503", "U+1D504", "U+1D505", "U+1D507", "U+1D508", "U+1D509",
      "U+1D50A", "U+1D50D", "U+1D50E", "U+1D50F", "U+1D510", "U+1D511", "U+1D512", "U+1D513",
      "U+1D514", "U+1D516", "U+1D517", "U+1D518", "U+1D519", "U+1D51A", "U+1D51B", "U+1D51C",
      "U+1D51E", "U+1D51F", "U+1D520", "U+1D521", "U+1D522", "U+1D523", "U+1D524", "U+1D525",
      "U+1D526", "U+1D527", "U+1D528", "U+1D529", "U+1D52A", "U+1D52B", "U+1D52C", "U+1D52D",
      "U+1D52E", "U+1D52F", "U+1D530", "U+1D531", "U+1D532", "U+1D533", "U+1D534", "U+1D535",
      "U+1D536", "U+1D537", "U+1D538", "U+1D539", "U+1D53B", "U+1D53C", "U+1D53D", "U+1D53E",
      "U+1D540", "U+1D541", "U+1D542", "U+1D543", "U+1D544", "U+1D546", "U+1D54A", "U+1D54B",
      "U+1D54C", "U+1D54D", "U+1D54E", "U+1D54F", "U+1D550", "U+1D552", "U+1D553", "U+1D554",
      "U+1D555", "U+1D556", "U+1D557", "U+1D558", "U+1D559", "U+1D55A", "U+1D55B", "U+1D55C",
      "U+1D55D", "U+1D55E", "U+1D55F", "U+1D560", "U+1D561", "U+1D562", "U+1D563", "U+1D564",
      "U+1D565", "U+1D566", "U+1D567", "U+1D568", "U+1D569", "U+1D56A", "U+1D56B", "U+1D56C",
      "U+1D56D", "U+1D56E", "U+1D56F", "U+1D570", "U+1D571", "U+1D572", "U+1D573", "U+1D574",
      "U+1D575", "U+1D576", "U+1D577", "U+1D578", "U+1D579", "U+1D57A", "U+1D57B", "U+1D57C",
      "U+1D57D", "U+1D57E", "U+1D57F", "U+1D580", "U+1D581", "U+1D582", "U+1D583", "U+1D584",
      "U+1D585", "U+1D586", "U+1D587", "U+1D588", "U+1D589", "U+1D58A", "U+1D58B", "U+1D58C",
      "U+1D58D", "U+1D58E", "U+1D58F", "U+1D590", "U+1D591", "U+1D592", "U+1D593", "U+1D594",
      "U+1D595", "U+1D596", "U+1D597", "U+1D598", "U+1D599", "U+1D59A", "U+1D59B", "U+1D59C",
      "U+1D59D", "U+1D59E", "U+1D59F", "U+1D5A0", "U+1D5A1", "U+1D5A2", "U+1D5A3", "U+1D5A4",
      "U+1D5A5", "U+1D5A6", "U+1D5A7", "U+1D5A8", "U+1D5A9", "U+1D5AA", "U+1D5AB", "U+1D5AC",
      "U+1D5AD", "U+1D5AE", "U+1D5AF", "U+1D5B0", "U+1D5B1", "U+1D5B2", "U+1D5B3", "U+1D5B4",
      "U+1D5B5", "U+1D5B6", "U+1D5B7", "U+1D5B8", "U+1D5B9", "U+1D5BA", "U+1D5BB", "U+1D5BC",
      "U+1D5BD", "U+1D5BE", "U+1D5BF", "U+1D5C0", "U+1D5C1", "U+1D5C2", "U+1D5C3", "U+1D5C4",
      "U+1D5C5", "U+1D5C6", "U+1D5C7", "U+1D5C8", "U+1D5C9", "U+1D5CA", "U+1D5CB", "U+1D5CC",
      "U+1D5CD", "U+1D5CE", "U+1D5CF", "U+1D5D0", "U+1D5D1", "U+1D5D2", "U+1D5D3", "U+1D5D4",
      "U+1D5D5", "U+1D5D6", "U+1D5D7", "U+1D5D8", "U+1D5D9", "U+1D5DA", "U+1D5DB", "U+1D5DC",
      "U+1D5DD", "U+1D5DE", "U+1D5DF", "U+1D5E0", "U+1D5E1", "U+1D5E2", "U+1D5E3", "U+1D5E4",
      "U+1D5E5", "U+1D5E6", "U+1D5E7", "U+1D5E8", "U+1D5E9", "U+1D5EA", "U+1D5EB", "U+1D5EC",
      "U+1D5ED", "U+1D5EE", "U+1D5EF", "U+1D5F0", "U+1D5F1", "U+1D5F2", "U+1D5F3", "U+1D5F4",
      "U+1D5F5", "U+1D5F6", "U+1D5F7", "U+1D5F8", "U+1D5F9", "U+1D5FA", "U+1D5FB", "U+1D5FC",
      "U+1D5FD", "U+1D5FE", "U+1D5FF", "U+1D600", "U+1D601", "U+1D602", "U+1D603", "U+1D604",
      "U+1D605", "U+1D606", "U+1D607", "U+1D608", "U+1D609", "U+1D60A", "U+1D60B", "U+1D60C",
      "U+1D60D", "U+1D60E", "U+1D60F", "U+1D610", "U+1D611", "U+1D612", "U+1D613", "U+1D614",
      "U+1D615", "U+1D616", "U+1D617", "U+1D618", "U+1D619", "U+1D61A", "U+1D61B", "U+1D61C",
      "U+1D61D", "U+1D61E", "U+1D61F", "U+1D620", "U+1D621", "U+1D622", "U+1D623", "U+1D624",
      "U+1D625", "U+1D626", "U+1D627", "U+1D628", "U+1D629", "U+1D62A", "U+1D62B", "U+1D62C",
      "U+1D62D", "U+1D62E", "U+1D62F", "U+1D630", "U+1D631", "U+1D632", "U+1D633", "U+1D634",
      "U+1D635", "U+1D636", "U+1D637", "U+1D638", "U+1D639", "U+1D63A", "U+1D63B", "U+1D63C",
      "U+1D63D", "U+1D63E", "U+1D63F", "U+1D640", "U+1D641", "U+1D642", "U+1D643", "U+1D644",
      "U+1D645", "U+1D646", "U+1D647", "U+1D648", "U+1D649", "U+1D64A", "U+1D64B", "U+1D64C",
      "U+1D64D", "U+1D64E", "U+1D64F", "U+1D650", "U+1D651", "U+1D652", "U+1D653", "U+1D654",
      "U+1D655", "U+1D656", "U+1D657", "U+1D658", "U+1D659", "U+1D65A", "U+1D65B", "U+1D65C",
      "U+1D65D", "U+1D65E", "U+1D65F", "U+1D660", "U+1D661", "U+1D662", "U+1D663", "U+1D664",
      "U+1D665", "U+1D666", "U+1D667", "U+1D668", "U+1D669", "U+1D66A", "U+1D66B", "U+1D66C",
      "U+1D66D", "U+1D66E", "U+1D66F", "U+1D670", "U+1D671", "U+1D672", "U+1D673", "U+1D674",
      "U+1D675", "U+1D676", "U+1D677", "U+1D678", "U+1D679", "U+1D67A", "U+1D67B", "U+1D67C",
      "U+1D67D", "U+1D67E", "U+1D67F", "U+1D680", "U+1D681", "U+1D682", "U+1D683", "U+1D684",
      "U+1D685", "U+1D686", "U+1D687", "U+1D688", "U+1D689", "U+1D68A", "U+1D68B", "U+1D68C",
      "U+1D68D", "U+1D68E", "U+1D68F", "U+1D690", "U+1D691", "U+1D692", "U+1D693", "U+1D694",
      "U+1D695", "U+1D696", "U+1D697", "U+1D698", "U+1D699", "U+1D69A", "U+1D69B", "U+1D69C",
      "U+1D69D", "U+1D69E", "U+1D69F", "U+1D6A0", "U+1D6A1", "U+1D6A2", "U+1D6A3", "U+1D6A4",
      "U+1D6A5", "U+1D6A8", "U+1D6A9", "U+1D6AA", "U+1D6AB", "U+1D6AC", "U+1D6AD", "U+1D6AE",
      "U+1D6AF", "U+1D6B0", "U+1D6B1", "U+1D6B2", "U+1D6B3", "U+1D6B4", "U+1D6B5", "U+1D6B6",
      "U+1D6B7", "U+1D6B8", "U+1D6B9", "U+1D6BA", "U+1D6BB", "U+1D6BC", "U+1D6BD", "U+1D6BE",
      "U+1D6BF", "U+1D6C0", "U+1D6C2", "U+1D6C3", "U+1D6C4", "U+1D6C5", "U+1D6C6", "U+1D6C7",
      "U+1D6C8", "U+1D6C9", "U+1D6CA", "U+1D6CB", "U+1D6CC", "U+1D6CD", "U+1D6CE", "U+1D6CF",
      "U+1D6D0", "U+1D6D1", "U+1D6D2", "U+1D6D3", "U+1D6D4", "U+1D6D5", "U+1D6D6", "U+1D6D7",
      "U+1D6D8", "U+1D6D9", "U+1D6DA", "U+1D6DC", "U+1D6DD", "U+1D6DE", "U+1D6DF", "U+1D6E0",
      "U+1D6E1", "U+1D6E2", "U+1D6E3", "U+1D6E4", "U+1D6E5", "U+1D6E6", "U+1D6E7", "U+1D6E8",
      "U+1D6E9", "U+1D6EA", "U+1D6EB", "U+1D6EC", "U+1D6ED", "U+1D6EE", "U+1D6EF", "U+1D6F0",
      "U+1D6F1", "U+1D6F2", "U+1D6F3", "U+1D6F4", "U+1D6F5", "U+1D6F6", "U+1D6F7", "U+1D6F8",
      "U+1D6F9", "U+1D6FA", "U+1D6FC", "U+1D6FD", "U+1D6FE", "U+1D6FF", "U+1D700", "U+1D701",
      "U+1D702", "U+1D703", "U+1D704", "U+1D705", "U+1D706", "U+1D707", "U+1D708", "U+1D709",
      "U+1D70A", "U+1D70B", "U+1D70C", "U+1D70D", "U+1D70E", "U+1D70F", "U+1D710", "U+1D711",
      "U+1D712", "U+1D713", "U+1D714", "U+1D716", "U+1D717", "U+1D718", "U+1D719", "U+1D71A",
      "U+1D71B", "U+1D71C", "U+1D71D", "U+1D71E", "U+1D71F", "U+1D720", "U+1D721", "U+1D722",
      "U+1D723", "U+1D724", "U+1D725", "U+1D726", "U+1D727", "U+1D728", "U+1D729", "U+1D72A",
      "U+1D72B", "U+1D72C", "U+1D72D", "U+1D72E", "U+1D72F", "U+1D730", "U+1D731", "U+1D732",
      "U+1D733", "U+1D734", "U+1D736", "U+1D737", "U+1D738", "U+1D739", "U+1D73A", "U+1D73B",
      "U+1D73C", "U+1D73D", "U+1D73E", "U+1D73F", "U+1D740", "U+1D741", "U+1D742", "U+1D743",
      "U+1D744", "U+1D745", "U+1D746", "U+1D747", "U+1D748", "U+1D749", "U+1D74A", "U+1D74B",
      "U+1D74C", "U+1D74D", "U+1D74E", "U+1D750", "U+1D751", "U+1D752", "U+1D753", "U+1D754",
      "U+1D755", "U+1D756", "U+1D757", "U+1D758", "U+1D759", "U+1D75A", "U+1D75B", "U+1D75C",
      "U+1D75D", "U+1D75E", "U+1D75F", "U+1D760", "U+1D761", "U+1D762", "U+1D763", "U+1D764",
      "U+1D765", "U+1D766", "U+1D767", "U+1D768", "U+1D769", "U+1D76A", "U+1D76B", "U+1D76C",
      "U+1D76D", "U+1D76E", "U+1D770", "U+1D771", "U+1D772", "U+1D773", "U+1D774", "U+1D775",
      "U+1D776", "U+1D777", "U+1D778", "U+1D779", "U+1D77A", "U+1D77B", "U+1D77C", "U+1D77D",
      "U+1D77E", "U+1D77F", "U+1D780", "U+1D781", "U+1D782", "U+1D783", "U+1D784", "U+1D785",
      "U+1D786", "U+1D787", "U+1D788", "U+1D78A", "U+1D78B", "U+1D78C", "U+1D78D", "U+1D78E",
      "U+1D78F", "U+1D790", "U+1D791", "U+1D792", "U+1D793", "U+1D794", "U+1D795", "U+1D796",
      "U+1D797", "U+1D798", "U+1D799", "U+1D79A", "U+1D79B", "U+1D79C", "U+1D79D", "U+1D79E",
      "U+1D79F", "U+1D7A0", "U+1D7A1", "U+1D7A2", "U+1D7A3", "U+1D7A4", "U+1D7A5", "U+1D7A6",
      "U+1D7A7", "U+1D7A8", "U+1D7AA", "U+1D7AB", "U+1D7AC", "U+1D7AD", "U+1D7AE", "U+1D7AF",
      "U+1D7B0", "U+1D7B1", "U+1D7B2", "U+1D7B3", "U+1D7B4", "U+1D7B5", "U+1D7B6", "U+1D7B7",
      "U+1D7B8", "U+1D7B9", "U+1D7BA", "U+1D7BB", "U+1D7BC", "U+1D7BD", "U+1D7BE", "U+1D7BF",
      "U+1D7C0", "U+1D7C1", "U+1D7C2", "U+1D7C4", "U+1D7C5", "U+1D7C6", "U+1D7C7", "U+1D7C8",
      "U+1D7C9", "U+1D7CA", "U+1D7CB", "U+1DF00", "U+1DF01", "U+1DF02", "U+1DF03", "U+1DF04",
      "U+1DF05", "U+1DF06", "U+1DF07", "U+1DF08", "U+1DF09", "U+1DF0B", "U+1DF0C", "U+1DF0D",
      "U+1DF0E", "U+1DF0F", "U+1DF10", "U+1DF11", "U+1DF12", "U+1DF13", "U+1DF14", "U+1DF15",
      "U+1DF16", "U+1DF17", "U+1DF18", "U+1DF19", "U+1DF1A", "U+1DF1B", "U+1DF1C", "U+1DF1D",
      "U+1DF1E", "U+1F130", "U+1F131", "U+1F132", "U+1F133", "U+1F134", "U+1F135", "U+1F136",
      "U+1F137", "U+1F138", "U+1F139", "U+1F13A", "U+1F13B", "U+1F13C", "U+1F13D", "U+1F13E",
      "U+1F13F", "U+1F140", "U+1F141", "U+1F142", "U+1F143", "U+1F144", "U+1F145", "U+1F146",
      "U+1F147", "U+1F148", "U+1F149", "U+1F150", "U+1F151", "U+1F152", "U+1F153", "U+1F154",
      "U+1F155", "U+1F156", "U+1F157", "U+1F158", "U+1F159", "U+1F15A", "U+1F15B", "U+1F15C",
      "U+1F15D", "U+1F15E", "U+1F15F", "U+1F160", "U+1F161", "U+1F162", "U+1F163", "U+1F164",
      "U+1F165", "U+1F166", "U+1F167", "U+1F168", "U+1F169", "U+1F170", "U+1F171", "U+1F172",
      "U+1F173", "U+1F174", "U+1F175", "U+1F176", "U+1F177", "U+1F178", "U+1F179", "U+1F17A",
      "U+1F17B", "U+1F17C", "U+1F17D", "U+1F17E", "U+1F17F", "U+1F180", "U+1F181", "U+1F182",
      "U+1F183", "U+1F184", "U+1F185", "U+1F186", "U+1F187", "U+1F188", "U+1F189"
    }

\* the decimal digits (category Nd): one row per script, the digits 0 to 9
\* in order
DecimalDigitRows ==
    <<
      <<"0", "1", "2", "3", "4", "5", "6", "7", "8", "9">>,
      <<"U+0660", "U+0661", "U+0662", "U+0663", "U+0664", "U+0665", "U+0666", "U+0667", "U+0668", "U+0669">>,
      <<"U+06F0", "U+06F1", "U+06F2", "U+06F3", "U+06F4", "U+06F5", "U+06F6", "U+06F7", "U+06F8", "U+06F9">>,
      <<"U+07C0", "U+07C1", "U+07C2", "U+07C3", "U+07C4", "U+07C5", "U+07C6", "U+07C7", "U+07C8", "U+07C9">>,
      <<"U+0966", "U+0967", "U+0968", "U+0969", "U+096A", "U+096B", "U+096C", "U+096D", "U+096E", "U+096F">>,
      <<"U+09E6", "U+09E7", "U+09E8", "U+09E9", "U+09EA", "U+09EB", "U+09EC", "U+09ED", "U+09EE", "U+09EF">>,
      <<"U+0A66", "U+0A67", "U+0A68", "U+0A69", "U+0A6A", "U+0A6B", "U+0A6C", "U+0A6D", "U+0A6E", "U+0A6F">>,
      <<"U+0AE6", "U+0AE7", "U+0AE8", "U+0AE9", "U+0AEA", "U+0AEB", "U+0AEC", "U+0AED", "U+0AEE", "U+0AEF">>,
      <<"U+0B66", "U+0B67", "U+0B68", "U+0B69", "U+0B6A", "U+0B6B", "U+0B6C", "U+0B6D", "U+0B6E", "U+0B6F">>,
      <<"U+0BE6", "U+0BE7", "U+0BE8", "U+0BE9", "U+0BEA", "U+0BEB", "U+0BEC", "U+0BED", "U+0BEE", "U+0BEF">>,
      <<"U+0C66", "U+0C67", "U+0C68", "U+0C69", "U+0C6A", "U+0C6B", "U+0C6C", "U+0C6D", "U+0C6E", "U+0C6F">>,
      <<"U+0CE6", "U+0CE7", "U+0CE8", "U+0CE9", "U+0CEA", "U+0CEB", "U+0CEC", "U+0CED", "U+0CEE", "U+0CEF">>,
      <<"U+0D66", "U+0D67", "U+0D68", "U+0D69", "U+0D6A", "U+0D6B", "U+0D6C", "U+0D6D", "U+0D6E", "U+0D6F">>,
      <<"U+0DE6", "U+0DE7", "U+0DE8", "U+0DE9", "U+0DEA", "U+0DEB", "U+0DEC", "U+0DED", "U+0DEE", "U+0DEF">>,
      <<"U+0E50", "U+0E51", "U+0E52", "U+0E53", "U+0E54", "U+0E55", "U+0E56", "U+0E57", "U+0E58", "U+0E59">>,
      <<"U+0ED0", "U+0ED1", "U+0ED2", "U+0ED3", "U+0ED4", "U+0ED5", "U+0ED6", "U+0ED7", "U+0ED8", "U+0ED9">>,
      <<"U+0F20", "U+0F21", "U+0F22", "U+0F23", "U+0F24", "U+0F25", "U+0F26", "U+0F27", "U+0F28", "U+0F29">>,
      <<"U+1040", "U+1041", "U+1042", "U+1043", "U+1044", "U+1045", "U+1046", "U+1047", "U+1048", "U+1049">>,
      <<"U+1090", "U+1091", "U+1092", "U+1093", "U+1094", "U+1095", "U+1096", "U+1097", "U+1098", "U+1099">>,
      <<"U+17E0", "U+17E1", "U+17E2", "U+17E3", "U+17E4", "U+17E5", "U+17E6", "U+17E7", "U+17E8", "U+17E9">>,
      <<"U+1810", "U+1811", "U+1812", "U+1813", "U+1814", "U+1815", "U+1816", "U+1817", "U+1818", "U+1819">>,
      <<"U+1946", "U+1947", "U+1948", "U+1949", "U+194A", "U+194B", "U+194C", "U+194D", "U+194E", "U+194F">>,
      <<"U+19D0", "U+19D1", "U+19D2", "U+19D3", "U+19D4", "U+19D5", "U+19D6", "U+19D7", "U+19D8", "U+19D9">>,
      <<"U+1A80", "U+1A81", "U+1A82", "U+1A83", "U+1A84", "U+1A85", "U+1A86", "U+1A87", "U+1A88", "U+1A89">>,
      <<"U+1A90", "U+1A91", "U+1A92", "U+1A93", "U+1A94", "U+1A95", "U+1A96", "U+1A97", "U+1A98", "U+1A99">>,
      <<"U+1B50", "U+1B51", "U+1B52", "U+1B53", "U+1B54", "U+1B55", "U+1B56", "U+1B57", "U+1B58", "U+1B59">>,
      <<"U+1BB0", "U+1BB1", "U+1BB2", "U+1BB3", "U+1BB4", "U+1BB5", "U+1BB6", "U+1BB7", "U+1BB8", "U+1BB9">>,
      <<"U+1C40", "U+1C41", "U+1C42", "U+1C43", "U+1C44", "U+1C45", "U+1C46", "U+1C47", "U+1C48", "U+1C49">>,
      <<"U+1C50", "U+1C51", "U+1C52", "U+1C53", "U+1C54", "U+1C55", "U+1C56", "U+1C57", "U+1C58", "U+1C59">>,
      <<"U+A620", "U+A621", "U+A622", "U+A623", "U+A624", "U+A625", "U+A626", "U+A627", "U+A628", "U+A629">>,
      <<"U+A8D0", "U+A8D1", "U+A8D2", "U+A8D3", "U+A8D4", "U+A8D5", "U+A8D6", "U+A8D7", "U+A8D8", "U+A8D9">>,
      <<"U+A900", "U+A901", "U+A902", "U+A903", "U+A904", "U+A905", "U+A906", "U+A907", "U+A908", "U+A909">>,
      <<"U+A9D0", "U+A9D1", "U+A9D2", "U+A9D3", "U+A9D4", "U+A9D5", "U+A9D6", "U+A9D7", "U+A9D8", "U+A9D9">>,
      <<"U+A9F0", "U+A9F1", "U+A9F2", "U+A9F3", "U+A9F4", "U+A9F5", "U+A9F6", "U+A9F7", "U+A9F8", "U+A9F9">>,
      <<"U+AA50", "U+AA51", "U+AA52", "U+AA53", "U+AA54", "U+AA55", "U+AA56", "U+AA57", "U+AA58", "U+AA59">>,
      <<"U+ABF0", "U+ABF1", "U+ABF2", "U+ABF3", "U+ABF4", "U+ABF5", "U+ABF6", "U+ABF7", "U+ABF8", "U+ABF9">>,
      <<"U+FF10", "U+FF11", "U+FF12", "U+FF13", "U+FF14", "U+FF15", "U+FF16", "U+FF17", "U+FF18", "U+FF19">>,
      <<"U+104A0", "U+104A1", "U+104A2", "U+104A3", "U+104A4", "U+104A5", "U+104A6", "U+104A7", "U+104A8", "U+104A9">>,
      <<"U+10D30", "U+10D31", "U+10D32", "U+10D33", "U+10D34", "U+10D35", "U+10D36", "U+10D37", "U+10D38", "U+10D39">>,
      <<"U+11066", "U+11067", "U+11068", "U+11069", "U+1106A", "U+1106B", "U+1106C", "U+1106D", "U+1106E", "U+1106F">>,
      <<"U+110F0", "U+110F1", "U+110F2", "U+110F3", "U+110F4", "U+110F5", "U+110F6", "U+110F7", "U+110F8", "U+110F9">>,
      <<"U+11136", "U+11137", "U+11138", "U+11139", "U+1113A", "U+1113B", "U+1113C", "U+1113D", "U+1113E", "U+1113F">>,
      <<"U+111D0", "U+111D1", "U+111D2", "U+111D3", "U+111D4", "U+111D5", "U+111D6", "U+111D7", "U+111D8", "U+111D9">>,
      <<"U+112F0", "U+112F1", "U+112F2", "U+112F3", "U+112F4", "U+112F5", "U+112F6", "U+112F7", "U+112F8", "U+112F9">>,
      <<"U+11450", "U+11451", "U+11452", "U+11453", "U+11454", "U+11455", "U+11456", "U+11457", "U+11458", "U+11459">>,
      <<"U+114D0", "U+114D1", "U+114D2", "U+114D3", "U+114D4", "U+114D5", "U+114D6", "U+114D7", "U+114D8", "U+114D9">>,
      <<"U+11650", "U+11651", "U+11652", "U+11653", "U+11654", "U+11655", "U+11656", "U+11657", "U+11658", "U+11659">>,
      <<"U+116C0", "U+116C1", "U+116C2", "U+116C3", "U+116C4", "U+116C5", "U+116C6", "U+116C7", "U+116C8", "U+116C9">>,
      <<"U+11730", "U+11731", "U+11732", "U+11733", "U+11734", "U+11735", "U+11736", "U+11737", "U+11738", "U+11739">>,
      <<"U+118E0", "U+118E1", "U+118E2", "U+118E3", "U+118E4", "U+118E5", "U+118E6", "U+118E7", "U+118E8", "U+118E9">>,
      <<"U+11950", "U+11951", "U+11952", "U+11953", "U+11954", "U+11955", "U+11956", "U+11957", "U+11958", "U+11959">>,
      <<"U+11C50", "U+11C51", "U+11C52", "U+11C53", "U+11C54", "U+11C55", "U+11C56", "U+11C57", "U+11C58", "U+11C59">>,
      <<"U+11D50", "U+11D51", "U+11D52", "U+11D53", "U+11D54", "U+11D55", "U+11D56", "U+11D57", "U+11D58", "U+11D59">>,
      <<"U+11DA0", "U+11DA1", "U+11DA2", "U+11DA3", "U+11DA4", "U+11DA5", "U+11DA6", "U+11DA7", "U+11DA8", "U+11DA9">>,
      <<"U+16A60", "U+16A61", "U+16A62", "U+16A63", "U+16A64", "U+16A65", "U+16A66", "U+16A67", "U+16A68", "U+16A69">>,
      <<"U+16AC0", "U+16AC1", "U+16AC2", "U+16AC3", "U+16AC4", "U+16AC5", "U+16AC6", "U+16AC7", "U+16AC8", "U+16AC9">>,
      <<"U+16B50", "U+16B51", "U+16B52", "U+16B53", "U+16B54", "U+16B55", "U+16B56", "U+16B57", "U+16B58", "U+16B59">>,
      <<"U+1D7CE", "U+1D7CF", "U+1D7D0", "U+1D7D1", "U+1D7D2", "U+1D7D3", "U+1D7D4", "U+1D7D5", "U+1D7D6", "U+1D7D7">>,
      <<"U+1D7D8", "U+1D7D9", "U+1D7DA", "U+1D7DB", "U+1D7DC", "U+1D7DD", "U+1D7DE", "U+1D7DF", "U+1D7E0", "U+1D7E1">>,
      <<"U+1D7E2", "U+1D7E3", "U+1D7E4", "U+1D7E5", "U+1D7E6", "U+1D7E7", "U+1D7E8", "U+1D7E9", "U+1D7EA", "U+1D7EB">>,
      <<"U+1D7EC", "U+1D7ED", "U+1D7EE", "U+1D7EF", "U+1D7F0", "U+1D7F1", "U+1D7F2", "U+1D7F3", "U+1D7F4", "U+1D7F5">>,
      <<"U+1D7F6", "U+1D7F7", "U+1D7F8", "U+1D7F9", "U+1D7FA", "U+1D7FB", "U+1D7FC", "U+1D7FD", "U+1D7FE", "U+1D7FF">>,
      <<"U+1E140", "U+1E141", "U+1E142", "U+1E143", "U+1E144", "U+1E145", "U+1E146", "U+1E147", "U+1E148", "U+1E149">>,
      <<"U+1E2F0", "U+1E2F1", "U+1E2F2", "U+1E2F3", "U+1E2F4", "U+1E2F5", "U+1E2F6", "U+1E2F7", "U+1E2F8", "U+1E2F9">>,
      <<"U+1E950", "U+1E951", "U+1E952", "U+1E953", "U+1E954", "U+1E955", "U+1E956", "U+1E957", "U+1E958", "U+1E959">>,
      <<"U+1FBF0", "U+1FBF1", "U+1FBF2", "U+1FBF3", "U+1FBF4", "U+1FBF5", "U+1FBF6", "U+1FBF7", "U+1FBF8", "U+1FBF9">>
    >>

\* the characters that are digits (str.isdigit()) without being decimal
\* digits: superscripts, subscripts, circled and parenthesized digits, ...
OtherDigits ==
    {
      "U+00B2", "U+00B3", "U+00B9", "U+1369", "U+136A", "U+136B", "U+136C", "U+136D",
      "U+136E", "U+136F", "U+1370", "U+1371", "U+19DA", "U+2070", "U+2074", "U+2075",
      "U+2076", "U+2077", "U+2078", "U+2079", "U+2080", "U+2081", "U+2082", "U+2083",
      "U+2084", "U+2085", "U+2086", "U+2087", "U+2088", "U+2089", "U+2460", "U+2461",
      "U+2462", "U+2463", "U+2464", "U+2465", "U+2466", "U+2467", "U+2468", "U+2474",
      "U+2475", "U+2476", "U+2477", "U+2478", "U+2479", "U+247A", "U+247B", "U+247C",
      "U+2488", "U+2489", "U+248A", "U+248B", "U+248C", "U+248D", "U+248E", "U+248F",
      "U+2490", "U+24EA", "U+24F5", "U+24F6", "U+24F7", "U+24F8", "U+24F9", "U+24FA",
      "U+24FB", "U+24FC", "U+24FD", "U+24FF", "U+2776", "U+2777", "U+2778", "U+2779",
      "U+277A", "U+277B", "U+277C", "U+277D", "U+277E", "U+2780", "U+2781", "U+2782",
      "U+2783", "U+2784", "U+2785", "U+2786", "U+2787", "U+2788", "U+278A", "U+278B",
      "U+278C", "U+278D", "U+278E", "U+278F", "U+2790", "U+2791", "U+2792", "U+10A40",
      "U+10A41", "U+10A42", "U+10A43", "U+10E60", "U+10E61", "U+10E62", "U+10E63", "U+10E64",
      "U+10E65", "U+10E66", "U+10E67", "U+10E68", "U+11052", "U+11053", "U+11054", "U+11055",
      "U+11056", "U+11057", "U+11058", "U+11059", "U+1105A", "U+1F100", "U+1F101", "U+1F102",
      "U+1F103", "U+1F104", "U+1F105", "U+1F106", "U+1F107", "U+1F108", "U+1F109", "U+1F10A"
    }

(***************************************************************************)
(* Python str primitives                                                   *)
(***************************************************************************)
\* a table of rows <<character, text>> with the set of the characters
Keyed(table) ==
    [keys |-> {table[k][1] : k \in DOMAIN table}, rows |-> table]

\* the text of c in the table, c itself when it has no row
Mapped(map, c) ==
    IF c \in map.keys
    THEN map.rows[CHOOSE k \in DOMAIN map.rows : map.rows[k][1] = c][2]
    ELSE <<c>>

UpperMap ==
    Keyed(UpperTable)

\* c.upper(): one to three characters
UpperChar(c) ==
    Mapped(UpperMap, c)

RECURSIVE UpperFrom(_, _)
UpperFrom(s, k) ==
    IF k > Len(s) THEN <<>> ELSE UpperChar(s[k]) \o UpperFrom(s, k + 1)

\* str.upper(): the upper case of each character in turn
Upper(s) ==
    UpperFrom(s, 1)

\* str.startswith(p)
StartsWith(s, p) ==
    /\ Len(s) >= Len(p)
    /\ SubSeq(s, 1, Len(p)) = p

RECURSIVE LStripSet(_, _)
\* str.lstrip(chars)
LStripSet(s, chars) ==
    IF s # <<>> /\ Head(s) \in chars THEN LStripSet(Tail(s), chars) ELSE s

RECURSIVE RStripSet(_, _)
\* str.rstrip(chars)
RStripSet(s, chars) ==
    IF s # <<>> /\ s[Len(s)] \in chars
    THEN RStripSet(SubSeq(s, 1, Len(s) - 1), chars)
    ELSE s

\* str.strip()
Strip(s) ==
    RStripSet(LStripSet(s, WhiteSpace), WhiteSpace)

\* index of the first occurrence of character c in s, 0 when absent
FirstIndex(s, c) ==
    IF \E i \in 1..Len(s) : s[i] = c
    THEN CHOOSE i \in 1..Len(s) : s[i] = c /\ \A j \in 1..(i - 1) : s[j] # c
    ELSE 0

RECURSIVE Split(_, _)
\* str.split(c) for a one-character separator c
Split(s, c) ==
    LET k == FirstIndex(s, c)
    IN  IF k = 0 THEN <<s>>
        ELSE <<SubSeq(s, 1, k - 1)>> \o Split(SubSeq(s, k + 1, Len(s)), c)

\* s.split(c, 1)[1] for an s that contains c
AfterFirst(s, c) ==
    SubSeq(s, FirstIndex(s, c) + 1, Len(s))

\* str.replace(c, '')
Remove(s, c) ==
    SelectSeq(s, LAMBDA x : x # c)

\* s[:n]: the first n items, and for a negative n all but the last -n
Prefix(s, n) ==
    SubSeq(s, 1, IF n < 0 THEN (IF Len(s) + n < 0 THEN 0 ELSE Len(s) + n)
                 ELSE IF Len(s) < n THEN Len(s) ELSE n)

(***************************************************************************)
(* Python float.  A finite float is written (-1)^neg * int.frac with the   *)
(* digits that repr() prints for it, the shortest decimal that float()     *)
(* reads back as the same float: int and frac are sequences of digits      *)
(* 0..9, int without leading zeros and frac without trailing zeros, so 0.0 *)
(* has no digits and -0.0 is 0.0 with neg set.  Floats compare as these    *)
(* decimals do.  Exact is the exact value of a float, a decimal as well,   *)
(* and Nearest is the rounding of IEEE 754 binary64 to the nearest float,  *)
(* ties to the even significand.  A float operation is the exact operation *)
(* on the exact values followed by Nearest; float() of a literal is        *)
(* Nearest of the value that the literal writes.                           *)
(***************************************************************************)
\* similarity 1.0 in fixed point: a similarity s is stored as s * ConfScale
ConfScale ==
    2 * 1000

Zeros(n) ==
    [k \in 1..n |-> 0]

\* the zeros in front of the first digit that is not zero
LeadingZeros(digits) ==
    (CHOOSE k \in DOMAIN digits :
        /\ digits[k] # 0
        /\ \A j \in 1..(k - 1) : digits[j] = 0) - 1

\* the place of the last digit that is not zero
LastNonZero(digits) ==
    CHOOSE k \in DOMAIN digits :
        /\ digits[k] # 0
        /\ \A j \in (k + 1)..Len(digits) : digits[j] = 0

StripLeadingZeros(digits) ==
    IF digits = <<>> \/ digits[1] # 0 THEN digits
    ELSE IF \A k \in DOMAIN digits : digits[k] = 0 THEN <<>>
    ELSE SubSeq(digits, LeadingZeros(digits) + 1, Len(digits))

StripTrailingZeros(digits) ==
    IF digits = <<>> \/ digits[Len(digits)] # 0 THEN digits
    ELSE IF \A k \in DOMAIN digits : digits[k] = 0 THEN <<>>
    ELSE SubSeq(digits, 1, LastNonZero(digits))

Decimal(neg, int, frac) ==
    [neg |-> neg, int |-> StripLeadingZeros(int),
     frac |-> StripTrailingZeros(frac)]

\* 0.0
Zero ==
    Decimal(FALSE, <<>>, <<>>)

\* 1.0
One ==
    Decimal(FALSE, <<1>>, <<>>)

IsZero(a) ==
    a.int = <<>> /\ a.frac = <<>>

\* a < 0.0
Negative(a) ==
    a.neg /\ ~IsZero(a)

\* |a|
Magnitude(a) ==
    [neg |-> FALSE, int |-> a.int, frac |-> a.frac]

MaxOf(m, n) ==
    IF m < n THEN n ELSE m

MinOf(m, n) ==
    IF m < n THEN m ELSE n

\* the digits of a with ni places before and nf places after the point
Aligned(a, ni, nf) ==
    Zeros(ni - Len(a.int)) \o a.int \o a.frac \o Zeros(nf - Len(a.frac))

\* the first place where p and q differ
FirstDifference(p, q) ==
    CHOOSE k \in DOMAIN p :
        /\ p[k] # q[k]
        /\ \A j \in 1..(k - 1) : p[j] = q[j]

\* -1 or 1 as p is below or above q at place k
CompareAt(p, q, k) ==
    IF p[k] < q[k] THEN -1 ELSE 1

\* -1, 0 or 1 as p is below, equal to or above q, both of one length
CompareDigits(p, q) ==
    IF p = q THEN 0 ELSE CompareAt(p, q, FirstDifference(p, q))

\* -1, 0 or 1 as |a| is below, equal to or above |b|
CompareMagnitude(a, b) ==
    IF Len(a.int) # Len(b.int)
    THEN (IF Len(a.int) < Len(b.int) THEN -1 ELSE 1)
    ELSE CompareDigits(
             Aligned(a, Len(a.int), MaxOf(Len(a.frac), Len(b.frac))),
             Aligned(b, Len(a.int), MaxOf(Len(a.frac), Len(b.frac))))

\* a < b
Less(a, b) ==
    IF Negative(a)
    THEN (IF Negative(b) THEN CompareMagnitude(a, b) = 1 ELSE TRUE)
    ELSE (IF Negative(b) THEN FALSE ELSE CompareMagnitude(a, b) = -1)

\* the decimal with the given digits, the last nf of them after the point
FromDigits(neg, digits, nf) ==
    Decimal(neg, SubSeq(digits, 1, Len(digits) - nf),
            SubSeq(digits, Len(digits) - nf + 1, Len(digits)))

\* p + q carries into place k: the first place behind k whose digits do not
\* add up to 9 has digits that add up to more
CarryInto(p, q, k) ==
    \E j \in (k + 1)..Len(p) :
        /\ p[j] + q[j] > 9
        /\ \A h \in (k + 1)..(j - 1) : p[h] + q[h] = 9

\* p - q borrows from place k: the first place behind k where the digits
\* differ has the smaller digit in p
BorrowFrom(p, q, k) ==
    \E j \in (k + 1)..Len(p) :
        /\ p[j] < q[j]
        /\ \A h \in (k + 1)..(j - 1) : p[h] = q[h]

\* p + q, p and q of one length and with a zero in front
AddDigits(p, q) ==
    [k \in DOMAIN p |->
        (p[k] + q[k] + (IF CarryInto(p, q, k) THEN 1 ELSE 0)) % 10]

\* p - q for p >= q of one length
SubDigits(p, q) ==
    [k \in DOMAIN p |->
        (10 + p[k] - q[k] - (IF BorrowFrom(p, q, k) THEN 1 ELSE 0)) % 10]

\* 2 * p, p with a zero in front: a place carries when its digit is 5 or more
DoubleDigits(p) ==
    [k \in DOMAIN p |->
        (2 * p[k] + (IF k < Len(p) /\ p[k + 1] >= 5 THEN 1 ELSE 0)) % 10]

\* p / 2, p with a zero behind: an odd digit leaves 10 to the next place
HalveDigits(p) ==
    [k \in DOMAIN p |->
        (p[k] + (IF k > 1 /\ p[k - 1] % 2 = 1 THEN 10 ELSE 0)) \div 2]

\* the exact a + b; x + (-x) is 0.0
SumOfDigits(a, b, p, q, nf) ==
    IF a.neg = b.neg THEN FromDigits(a.neg, AddDigits(p, q), nf)
    ELSE IF p = q THEN Zero
    ELSE IF CompareDigits(p, q) = 1 THEN FromDigits(a.neg, SubDigits(p, q), nf)
    ELSE FromDigits(b.neg, SubDigits(q, p), nf)

Sum(a, b) ==
    SumOfDigits(a, b,
        Aligned(a, 1 + MaxOf(Len(a.int), Len(b.int)),
                MaxOf(Len(a.frac), Len(b.frac))),
        Aligned(b, 1 + MaxOf(Len(a.int), Len(b.int)),
                MaxOf(Len(a.frac), Len(b.frac))),
        MaxOf(Len(a.frac), Len(b.frac)))

\* the exact 2 * a
Double(a) ==
    FromDigits(a.neg, DoubleDigits(<<0>> \o a.int \o a.frac), Len(a.frac))

\* the exact a / 2
Halved(a) ==
    FromDigits(a.neg, HalveDigits(a.int \o a.frac \o <<0>>), Len(a.frac) + 1)

\* the exact a / 100
Hundredth(a) ==
    FromDigits(a.neg, Zeros(2) \o a.int \o a.frac, Len(a.frac) + 2)

RECURSIVE TimesPow2(_, _)
\* the exact a * 2^s, s of either sign, by halves of s
TimesPow2(a, s) ==
    IF s = 0 THEN a
    ELSE IF s = 1 THEN Double(a)
    ELSE IF s = -1 THEN Halved(a)
    ELSE CHOOSE z \in {TimesPow2(y, s - (s \div 2)) :
                          y \in {TimesPow2(a, s \div 2)}} : TRUE

\* 2^52, the least significand of a normal float, and 2^53, the bound of
\* the significands
MinSignificand ==
    [neg |-> FALSE, frac |-> <<>>,
     int |-> <<4, 5, 0, 3, 5, 9, 9, 6, 2, 7, 3, 7, 0, 4, 9, 6>>]

SignificandBound ==
    [neg |-> FALSE, frac |-> <<>>,
     int |-> <<9, 0, 0, 7, 1, 9, 9, 2, 5, 4, 7, 4, 0, 9, 9, 2>>]

\* a with 10^(m - 1) <= |a| < 10^m has the decimal exponent m
DecimalExponent(a) ==
    IF a.int # <<>> THEN Len(a.int) ELSE 0 - LeadingZeros(a.frac)

\* an estimate of the s with 2^52 <= |a| * 2^s < 2^53 from the decimal
\* exponent, log2(10) being 3.322; the spacing of the subnormal floats,
\* 2^-1074, bounds s
ScaleEstimate(a) ==
    MinOf(1074, 52 - ((3322 * DecimalExponent(a)) \div 1000))

RECURSIVE Normalised(_, _, _, _)
\* y = |a| * 2^s is scaled on until it is a significand with a fraction:
\* least <= y < bound, or, for the subnormal floats, y < least and s = 1074
Normalised(y, s, least, bound) ==
    IF CompareMagnitude(y, bound) >= 0
    THEN Normalised(Halved(y), s - 1, least, bound)
    ELSE IF CompareMagnitude(y, least) < 0 /\ s < 1074
    THEN Normalised(Double(y), s + 1, least, bound)
    ELSE [significand |-> y, scale |-> s]

\* p + 1, p with a zero in front: the nines at the end turn to zeros and
\* the digit in front of them goes up
Successor(p) ==
    [k \in DOMAIN p |->
        IF \A j \in (k + 1)..Len(p) : p[j] = 9 THEN (p[k] + 1) % 10
        ELSE p[k]]

\* the integer next to y >= 0, the even one of two that are equally near
NearestInteger(y) ==
    IF \/ (y.frac # <<>> /\ y.frac[1] > 5)
       \/ (y.frac # <<>> /\ y.frac[1] = 5 /\ Len(y.frac) > 1)
       \/ (y.frac = <<5>> /\ y.int # <<>> /\ y.int[Len(y.int)] % 2 = 1)
    THEN Decimal(FALSE, Successor(<<0>> \o y.int), <<>>)
    ELSE [neg |-> FALSE, int |-> y.int, frac |-> <<>>]

\* a with the sign given by neg
WithSign(neg, a) ==
    [neg |-> neg, int |-> a.int, frac |-> a.frac]

\* the digits of sig before the decimal point, the first point of them
IntDigits(sig, point) ==
    IF point <= 0 THEN <<>>
    ELSE IF point >= Len(sig) THEN sig \o Zeros(point - Len(sig))
    ELSE SubSeq(sig, 1, point)

\* the digits of sig behind the decimal point
FracDigits(sig, point) ==
    IF point <= 0 THEN Zeros(0 - point) \o sig
    ELSE IF point >= Len(sig) THEN <<>>
    ELSE SubSeq(sig, point + 1, Len(sig))

\* the decimal with the significant digits sig, the first point of them
\* before the decimal point
FromSignificant(sig, point) ==
    Decimal(FALSE, IntDigits(sig, point), FracDigits(sig, point))

\* a float as significand * 2^(-scale): the significand n is below 2^53, so
\* 2^53 * 2^(-s) is 2^52 * 2^(-(s - 1))
Binade(n, s) ==
    IF n = SignificandBound
    THEN [significand |-> MinSignificand, scale |-> s - 1]
    ELSE [significand |-> n, scale |-> s]

\* the float with the rounded significand of n
NearestSignificand(n) ==
    Binade(NearestInteger(n.significand), n.scale)

\* the float nearest to a decimal a > 0 below the overflow bound of float()
NearestFloat(a) ==
    NearestSignificand(Normalised(TimesPow2(a, ScaleEstimate(a)),
                                  ScaleEstimate(a),
                                  MinSignificand, SignificandBound))

\* p - 1 for the digits p of an integer above 0: the zeros at the end turn
\* to nines and the digit in front of them goes down
Predecessor(p) ==
    [k \in DOMAIN p |->
        IF \A j \in (k + 1)..Len(p) : p[j] = 0 THEN (p[k] + 9) % 10
        ELSE p[k]]

\* the float below the float f > 0: below a power of two above the
\* subnormal floats the floats are half as far apart
FloatBelow(f) ==
    IF f.significand = MinSignificand /\ f.scale < 1074
    THEN [significand |-> Decimal(FALSE, Predecessor(SignificandBound.int),
                                  <<>>),
          scale |-> f.scale + 1]
    ELSE [significand |-> Decimal(FALSE, Predecessor(f.significand.int),
                                  <<>>),
          scale |-> f.scale]

\* the number halfway between the float f and the float above it,
\* (2 * significand + 1) * 2^(-(scale + 1))
HalfwayAbove(f) ==
    [significand |-> Decimal(FALSE,
                             Successor(<<0>> \o Double(f.significand).int),
                             <<>>),
     scale |-> f.scale + 1]

\* the float f and the ends of the interval of the decimals that round to
\* it, halfway to the floats next to it
WithEnds(f) ==
    <<f>> \o [k \in 1..2 |-> HalfwayAbove(<<FloatBelow(f), f>>[k])]

\* the exact values of the binary numbers of a sequence
ExactValues(binaries) ==
    [k \in DOMAIN binaries |->
        TimesPow2(binaries[k].significand, 0 - binaries[k].scale)]

\* the decimals that round to the float f: the ends round to it when its
\* significand is even
RoundingInterval(f, values) ==
    [value |-> values[1], low |-> values[2], high |-> values[3],
     closed |-> f.significand.int[Len(f.significand.int)] % 2 = 0]

\* the decimal c > 0 from its order to the ends of the interval: it rounds
\* to the float of the interval
Between(order, closed) ==
    /\ order[1] > 0 \/ (closed /\ order[1] = 0)
    /\ order[2] < 0 \/ (closed /\ order[2] = 0)

Inside(c, interval) ==
    Between([k \in 1..2 |->
                CompareMagnitude(c, <<interval.low, interval.high>>[k])],
            interval.closed)

\* the first k of the digits sig, with zeros when sig has fewer
Leading(sig, k) ==
    SubSeq(sig \o Zeros(k), 1, k)

\* a decimal with whether it rounds to the float of the interval
Candidate(decimal, interval) ==
    [decimal |-> decimal, inside |-> Inside(decimal, interval)]

\* the decimals of k significant digits next to the value with the digits
\* sig, the one at or below it and the one above it
Neighbours(interval, sig, point, k) ==
    [c \in {"down", "up"} |->
        Candidate(FromSignificant(
                      IF c = "down" THEN <<0>> \o Leading(sig, k)
                      ELSE Successor(<<0>> \o Leading(sig, k)),
                      point + 1),
                  interval)]

\* a decimal of k significant digits rounds to the float of the interval
Fits(candidates) ==
    candidates.down.inside \/ candidates.up.inside

RECURSIVE LeastFitting(_, _, _, _, _)
\* the least k from least to most with Fits, most having it: when k digits
\* fit so do more
LeastFitting(interval, sig, point, least, most) ==
    IF least = most THEN least
    ELSE IF Fits(Neighbours(interval, sig, point, (least + most) \div 2))
    THEN LeastFitting(interval, sig, point, least, (least + most) \div 2)
    ELSE LeastFitting(interval, sig, point, (least + most) \div 2 + 1, most)

\* the value with the digits sig is nearer to the decimal of k digits above
\* it than to the one below, or as near with an odd digit k
NearerUp(sig, k) ==
    /\ k < Len(sig)
    /\ \/ sig[k + 1] > 5
       \/ sig[k + 1] = 5 /\ (Len(sig) > k + 1 \/ sig[k] % 2 = 1)

\* of the candidates that round to the float the nearest to its value
NearestOf(candidates, up) ==
    IF ~candidates.up.inside THEN candidates.down.decimal
    ELSE IF ~candidates.down.inside THEN candidates.up.decimal
    ELSE IF up THEN candidates.up.decimal
    ELSE candidates.down.decimal

\* the candidates of k digits and the nearest of them
NearestOfDigits(interval, sig, point, k) ==
    NearestOf(Neighbours(interval, sig, point, k), NearerUp(sig, k))

\* float_repr_style 'short': of the decimals with the fewest digits that
\* round to the float the nearest to its value; 17 digits always do
Shortest(interval, sig, point) ==
    NearestOfDigits(interval, sig, point,
                    LeastFitting(interval, sig, point, 1, 17))

\* the digits that repr() prints for the float of the interval
Repr(interval) ==
    Shortest(interval,
             StripLeadingZeros(interval.value.int \o interval.value.frac),
             DecimalExponent(interval.value))

\* a float with the sign given by neg, as it is printed and as it is
Described(neg, interval) ==
    [repr |-> WithSign(neg, Repr(interval)),
     value |-> WithSign(neg, interval.value)]

\* the float f with the sign given by neg; a significand of 0 is 0.0
RoundingTo(neg, f) ==
    IF IsZero(f.significand)
    THEN [repr |-> WithSign(neg, Zero), value |-> WithSign(neg, Zero)]
    ELSE Described(neg, RoundingInterval(f, ExactValues(WithEnds(f))))

\* the float nearest to a decimal below the overflow bound of float(),
\* worked out from the digits
RoundToNearest(a) ==
    IF IsZero(a) THEN [repr |-> a, value |-> a]
    ELSE RoundingTo(a.neg, NearestFloat(Magnitude(a)))

\* the roundings of the decimals of a set, worked out once
Tabulated(decimals) ==
    [a \in decimals |-> RoundToNearest(a)]

\* the exact values of the floats of a table
Values(table) ==
    {table[a].value : a \in DOMAIN table}

\* decimals that are written as a confidence: 0.9, 0.8, 0.7, 0.6, 0.5,
\* 0.7005, 0.7004, 0.70000000000000001, 0.87, 0.015, 87, 70.04, 33.3, 150,
\* 1.5 and 1.0000000000000001
WrittenConfidences ==
    {[neg |-> FALSE, int |-> <<>>, frac |-> <<9>>],
     [neg |-> FALSE, int |-> <<>>, frac |-> <<8>>],
     [neg |-> FALSE, int |-> <<>>, frac |-> <<7>>],
     [neg |-> FALSE, int |-> <<>>, frac |-> <<6>>],
     [neg |-> FALSE, int |-> <<>>, frac |-> <<5>>],
     [neg |-> FALSE, int |-> <<>>, frac |-> <<7, 0, 0, 5>>],
     [neg |-> FALSE, int |-> <<>>, frac |-> <<7, 0, 0, 4>>],
     [neg |-> FALSE, int |-> <<>>,
      frac |-> <<7, 0, 0, 0, 0, 0, 0, 0, 0, 0, 0, 0, 0, 0, 0, 0, 1>>],
     [neg |-> FALSE, int |-> <<>>, frac |-> <<8, 7>>],
     [neg |-> FALSE, int |-> <<>>, frac |-> <<0, 1, 5>>],
     [neg |-> FALSE, int |-> <<8, 7>>, frac |-> <<>>],
     [neg |-> FALSE, int |-> <<7, 0>>, frac |-> <<0, 4>>],
     [neg |-> FALSE, int |-> <<3, 3>>, frac |-> <<3>>],
     [neg |-> FALSE, int |-> <<1, 5, 0>>, frac |-> <<>>],
     [neg |-> FALSE, int |-> <<1>>, frac |-> <<5>>],
     [neg |-> FALSE, int |-> <<1>>,
      frac |-> <<0, 0, 0, 0, 0, 0, 0, 0, 0, 0, 0, 0, 0, 0, 0, 1>>]}

\* the floats at most 1.0 of a set, with 0.0 and 1.0
Confidences(floats) ==
    {Zero, One} \cup {a \in floats : ~Less(One, a)}

\* the sums of two of the decimals of a set
Sums(decimals) ==
    {Sum(a, b) : a \in decimals, b \in decimals}

\* the decimals that an operation of the given kind rounds: the hundredths
\* of the floats above 1.0, the sums of two of the floats up to 1.0, or the
\* halves of the floats
Operands(kind, floats) ==
    IF kind = "written" THEN WrittenConfidences
    ELSE IF kind = "hundredths"
    THEN {Hundredth(a) : a \in {b \in floats : Less(One, b)}}
    ELSE IF kind = "sums" THEN Sums(Confidences(floats))
    ELSE {Halved(a) : a \in floats}

RECURSIVE TableOf(_, _)
\* table and the roundings of the operands of the operations, each on the
\* floats of the table before it
TableOf(table, kinds) ==
    IF kinds = <<>> THEN table
    ELSE TableOf(table @@ Tabulated(Operands(Head(kinds), Values(table))),
                 Tail(kinds))

\* a table with its floats as decimals too: a float is the rounding of
\* its own digits
Indexed(table) ==
    table @@ [r \in {table[a].repr : a \in DOMAIN table} |->
                 table[CHOOSE a \in DOMAIN table : table[a].repr = r]]

\* the roundings that are worked out once and then looked up: of the
\* written confidences, of the hundredths of their floats, of the sums of
\* two of the confidences and of the halves of the sums
NearestTable ==
    Indexed(TableOf(<<>>, <<"written", "hundredths", "sums", "halves">>))

\* the rounding of a by the table, worked out when the table lacks a
Lookup(table, a) ==
    IF a \in DOMAIN table THEN table[a] ELSE RoundToNearest(a)

\* the float nearest to a decimal below the overflow bound of float()
Nearest(a) ==
    Lookup(NearestTable, a).repr

\* the exact value of the float a
Exact(a) ==
    Lookup(NearestTable, a).value

\* n / 1000 for n in 0..9999, such as Thousandths(700) for the literal 0.7
Thousandths(n) ==
    Decimal(FALSE, <<n \div 1000>>,
            <<(n \div 100) % 10, (n \div 10) % 10, n % 10>>)

\* a + b
Add(a, b) ==
    Nearest(Sum(Exact(a), Exact(b)))

\* a / 2
Half(a) ==
    Nearest(Halved(Exact(a)))

\* a / 100.0
Div100(a) ==
    Nearest(Hundredth(Exact(a)))

\* float() gives inf from this value on: 2^1024 - 2^970, halfway between the
\* largest float and 2^1024
OverflowBound ==
    [neg |-> FALSE, frac |-> <<>>, int |->
     <<
      1,7,9,7,6,9,3,1,3,4,8,6,2,3,1,5,8,0,7,9,3,7,2,8,9,7,1,4,0,5,
      3,0,3,4,1,5,0,7,9,9,3,4,1,3,2,7,1,0,0,3,7,8,2,6,9,3,6,1,7,3,
      7,7,8,9,8,0,4,4,4,9,6,8,2,9,2,7,6,4,7,5,0,9,4,6,6,4,9,0,1,7,
      9,7,7,5,8,7,2,0,7,0,9,6,3,3,0,2,8,6,4,1,6,6,9,2,8,8,7,9,1,0,
      9,4,6,5,5,5,5,4,7,8,5,1,9,4,0,4,0,2,6,3,0,6,5,7,4,8,8,6,7,1,
      5,0,5,8,2,0,6,8,1,9,0,8,9,0,2,0,0,0,7,0,8,3,8,3,6,7,6,2,7,3,
      8,5,4,8,4,5,8,1,7,7,1,1,5,3,1,7,6,4,4,7,5,7,3,0,2,7,0,0,6,9,
      8,5,5,5,7,1,3,6,6,9,5,9,6,2,2,8,4,2,9,1,4,8,1,9,8,6,0,8,3,4,
      9,3,6,4,7,5,2,9,2,7,1,9,0,7,4,1,6,8,4,4,4,3,6,5,5,1,0,7,0,4,
      3,4,2,7,1,1,5,5,9,6,9,9,5,0,8,0,9,3,0,4,2,8,8,0,1,7,7,9,0,4,
      1,7,4,4,9,7,7,9,2
     >>]

\* float() gives 0.0 up to this value: 2^-1075, half of the smallest float
UnderflowBound ==
    [neg |-> FALSE, int |-> <<>>, frac |->
     <<
      0,0,0,0,0,0,0,0,0,0,0,0,0,0,0,0,0,0,0,0,0,0,0,0,0,0,0,0,0,0,
      0,0,0,0,0,0,0,0,0,0,0,0,0,0,0,0,0,0,0,0,0,0,0,0,0,0,0,0,0,0,
      0,0,0,0,0,0,0,0,0,0,0,0,0,0,0,0,0,0,0,0,0,0,0,0,0,0,0,0,0,0,
      0,0,0,0,0,0,0,0,0,0,0,0,0,0,0,0,0,0,0,0,0,0,0,0,0,0,0,0,0,0,
      0,0,0,0,0,0,0,0,0,0,0,0,0,0,0,0,0,0,0,0,0,0,0,0,0,0,0,0,0,0,
      0,0,0,0,0,0,0,0,0,0,0,0,0,0,0,0,0,0,0,0,0,0,0,0,0,0,0,0,0,0,
      0,0,0,0,0,0,0,0,0,0,0,0,0,0,0,0,0,0,0,0,0,0,0,0,0,0,0,0,0,0,
      0,0,0,0,0,0,0,0,0,0,0,0,0,0,0,0,0,0,0,0,0,0,0,0,0,0,0,0,0,0,
      0,0,0,0,0,0,0,0,0,0,0,0,0,0,0,0,0,0,0,0,0,0,0,0,0,0,0,0,0,0,
      0,0,0,0,0,0,0,0,0,0,0,0,0,0,0,0,0,0,0,0,0,0,0,0,0,0,0,0,0,0,
      0,0,0,0,0,0,0,0,0,0,0,0,0,0,0,0,0,0,0,0,0,0,0,2,4,7,0,3,2,8,
      2,2,9,2,0,6,2,3,2,7,2,0,8,8,2,8,4,3,9,6,4,3,4,1,1,0,6,8,6,1,
      8,2,5,2,9,9,0,1,3,0,7,1,6,2,3,8,2,2,1,2,7,9,2,8,4,1,2,5,0,3,
      3,7,7,5,3,6,3,5,1,0,4,3,7,5,9,3,2,6,4,9,9,1,8,1,8,0,8,1,7,9,
      9,6,1,8,9,8,9,8,2,8,2,3,4,7,7,2,2,8,5,8,8,6,5,4,6,3,3,2,8,3,
      5,5,1,7,7,9,6,9,8,9,8,1,9,9,3,8,7,3,9,8,0,0,5,3,9,0,9,3,9,0,
      6,3,1,5,0,3,5,6,5,9,5,1,5,5,7,0,2,2,6,3,9,2,2,9,0,8,5,8,3,9,
      2,4,4,9,1,0,5,1,8,4,4,3,5,9,3,1,8,0,2,8,4,9,9,3,6,5,3,6,1,5,
      2,5,0,0,3,1,9,3,7,0,4,5,7,6,7,8,2,4,9,2,1,9,3,6,5,6,2,3,6,6,
      9,8,6,3,6,5,8,4,8,0,7,5,7,0,0,1,5,8,5,7,6,9,2,6,9,9,0,3,7,0,
      6,3,1,1,9,2,8,2,7,9,5,5,8,5,5,1,3,3,2,9,2,7,8,3,4,3,3,8,4,0,
      9,3,5,1,9,7,8,0,1,5,5,3,1,2,4,6,5,9,7,2,6,3,5,7,9,5,7,4,6,2,
      2,7,6,6,4,6,5,2,7,2,8,2,7,2,2,0,0,5,6,3,7,4,0,0,6,4,8,5,4,9,
      9,9,7,7,0,9,6,5,9,9,4,7,0,4,5,4,0,2,0,8,2,8,1,6,6,2,2,6,2,3,
      7,8,5,7,3,9,3,4,5,0,7,3,6,3,3,9,0,0,7,9,6,7,7,6,1,9,3,0,5,7,
      7,5,0,6,7,4,0,1,7,6,3,2,4,6,7,3,6,0,0,9,6,8,9,5,1,3,4,0,5,3,
      5,5,3,7,4,5,8,5,1,6,6,6,1,1,3,4,2,2,3,7,6,6,6,7,8,6,0,4,1,6,
      2,1,5,9,6,8,0,4,6,1,9,1,4,4,6,7,2,9,1,8,4,0,3,0,0,5,3,0,0,5,
      7,5,3,0,8,4,9,0,4,8,7,6,5,3,9,1,7,1,1,3,8,6,5,9,1,6,4,6,2,3,
      9,5,2,4,9,1,2,6,2,3,6,5,3,8,8,1,8,7,9,6,3,6,2,3,9,3,7,3,2,8,
      0,4,2,3,8,9,1,0,1,8,6,7,2,3,4,8,4,9,7,6,6,8,2,3,5,0,8,9,8,6,
      3,3,8,8,5,8,7,9,2,5,6,2,8,3,0,2,7,5,5,9,9,5,6,5,7,5,2,4,4,5,
      5,5,0,7,2,5,5,1,8,9,3,1,3,6,9,0,8,3,6,2,5,4,7,7,9,1,8,6,9,4,
      8,6,6,7,9,9,4,9,6,8,3,2,4,0,4,9,7,0,5,8,2,1,0,2,8,5,1,3,1,8,
      5,4,5,1,3,9,6,2,1,3,8,3,7,7,2,2,8,2,6,1,4,5,4,3,7,6,9,3,4,1,
      2,5,3,2,0,9,8,5,9,1,3,2,7,6,6,7,2,3,6,3,2,8,1,2,5
     >>]

RECURSIVE Pow10(_)
Pow10(n) ==
    IF n = 0 THEN 1 ELSE 10 * Pow10(n - 1)

\* Py_UNICODE_TODECIMAL: the value of a decimal digit of any script
DecimalValues(rows) ==
    [c \in UNION {{rows[r][d] : d \in 1..10} : r \in DOMAIN rows} |->
        (CHOOSE d \in 1..10 : \E r \in DOMAIN rows : rows[r][d] = c) - 1]

DecimalValueOf ==
    DecimalValues(DecimalDigitRows)

\* float() reads c as a digit
IsDigit(c) ==
    c \in DOMAIN DecimalValueOf

DigitVal(c) ==
    DecimalValueOf[c]

AllDigits(s) ==
    \A k \in 1..Len(s) : IsDigit(s[k])

\* the values of the digits of s
Digits(s) ==
    [k \in 1..Len(s) |-> DigitVal(s[k])]

RECURSIVE DigitsValue(_)
\* the number written by the digit values
DigitsValue(digits) ==
    IF digits = <<>> THEN 0
    ELSE 10 * DigitsValue(SubSeq(digits, 1, Len(digits) - 1))
             + digits[Len(digits)]

\* the white space float() strips: the ASCII white space of the C library
\* and the non-ASCII white space, not the separators U+001C to U+001F
FloatSpace ==
    WhiteSpace \ {"U+001C", "U+001D", "U+001E", "U+001F"}

\* an underscore is allowed between two digits only
UnderscoresAllowed(s) ==
    \A k \in 1..Len(s) :
        s[k] = "_" => /\ 1 < k
                      /\ k < Len(s)
                      /\ IsDigit(s[k - 1])
                      /\ IsDigit(s[k + 1])

\* the upper case of the ASCII letters only
UpperAscii(s) ==
    [k \in 1..Len(s) |->
        IF \E j \in 1..Len(LowerChars) : LowerChars[j] = s[k]
        THEN UpperChars[CHOOSE j \in 1..Len(LowerChars) : LowerChars[j] = s[k]]
        ELSE s[k]]

sINF ==
    <<"I","N","F">>

sINFINITY ==
    <<"I","N","F","I","N","I","T","Y">>

sNAN ==
    <<"N","A","N">>

\* most digits of an exponent whose value is computed; a longer exponent is
\* beyond every float whatever the mantissa of a reply is
MaxExponentDigits ==
    6

\* the result of float(): [ok |-> FALSE] stands for ValueError, kind is
\* "num", "inf" or "nan", and a finite value is (-1)^neg * int.frac
Float(kind, neg, int, frac) ==
    [ok |-> TRUE, kind |-> kind, neg |-> neg, int |-> int, frac |-> frac]

ValueError ==
    [ok |-> FALSE, kind |-> "num", neg |-> FALSE, int |-> <<>>, frac |-> <<>>]

\* the finite float a
FloatOfValue(a) ==
    Float("num", a.neg, a.int, a.frac)

\* the zeros between the decimal point and the first digit of UnderflowBound
UnderflowZeros ==
    LeadingZeros(UnderflowBound.frac)

\* value rounded to a float, value having point digits before the decimal
\* point (zeros behind it when point is negative): from over on the float
\* is inf and up to under it is 0.0; a value with fewer integer digits than
\* over is below it, and one with fewer zeros behind the point than under
\* is above it
Rounded(neg, value, point, over, under, zeros) ==
    IF point > Len(over.int)
    THEN Float("inf", neg, <<>>, <<>>)
    ELSE IF point < 0 - Len(under.frac)
    THEN Float("num", neg, <<>>, <<>>)
    ELSE IF point = Len(over.int) /\ ~Less(value, over)
    THEN Float("inf", neg, <<>>, <<>>)
    ELSE IF point <= 0 - zeros /\ ~Less(under, value)
    THEN Float("num", neg, <<>>, <<>>)
    ELSE FloatOfValue(WithSign(neg, Nearest(value)))

\* the float with the significant digits sig (no leading zero), the first
\* point of them before the decimal point
FloatOfDigits(neg, sig, point) ==
    IF sig = <<>> THEN Float("num", neg, <<>>, <<>>)
    ELSE Rounded(neg,
                 FromSignificant(sig, point),
                 point, OverflowBound, UnderflowBound, UnderflowZeros)

\* the literal has a sign in front
Signed(u) ==
    u # <<>> /\ Head(u) \in {"+", "-"}

\* the literal without its sign
Unsigned(u) ==
    IF Signed(u) THEN Tail(u) ELSE u

\* the sign in front of the literal is a minus
Minus(u) ==
    u # <<>> /\ Head(u) = "-"

\* the smaller of two places in a text, 0 standing for no place
EarlierOf(a, b) ==
    IF a = 0 THEN b ELSE IF b = 0 THEN a ELSE IF a < b THEN a ELSE b

\* the text in front of place k, all of it when k is 0
Before(s, k) ==
    IF k = 0 THEN s ELSE SubSeq(s, 1, k - 1)

\* the text behind place k, none when k is 0
After(s, k) ==
    IF k = 0 THEN <<>> ELSE SubSeq(s, k + 1, Len(s))

\* the value of the digits ip before and fp behind the point, times ten to
\* the exponent written by edig (negated when eneg); has_exp tells an
\* absent exponent from one without digits
FloatOfFields(neg, ip, fp, has_exp, eneg, edig) ==
    IF /\ AllDigits(ip)
       /\ AllDigits(fp)
       /\ Len(ip) + Len(fp) > 0
       /\ (~has_exp \/ (edig # <<>> /\ AllDigits(edig)))
    THEN LET all   == Digits(ip \o fp)
             sig   == StripLeadingZeros(all)
             edigs == StripLeadingZeros(Digits(edig))
             e     == IF Len(edigs) > MaxExponentDigits
                      THEN Pow10(MaxExponentDigits)
                      ELSE DigitsValue(edigs)
         IN  FloatOfDigits(neg, StripTrailingZeros(sig),
                           Len(ip) - (Len(all) - Len(sig))
                               + (IF eneg THEN 0 - e ELSE e))
    ELSE ValueError

\* the mantissa mant and the text etext behind the exponent letter
FloatOfParts(neg, mant, has_exp, etext) ==
    FloatOfFields(neg,
                  Before(mant, FirstIndex(mant, ".")),
                  After(mant, FirstIndex(mant, ".")),
                  has_exp, Minus(etext), Unsigned(etext))

\* the literal without its sign: inf, infinity or nan in any case, or a
\* mantissa with an optional exponent behind the first e or E
FloatOfBody(neg, body) ==
    IF UpperAscii(body) \in {sINF, sINFINITY}
    THEN Float("inf", neg, <<>>, <<>>)
    ELSE IF UpperAscii(body) = sNAN
    THEN Float("nan", neg, <<>>, <<>>)
    ELSE FloatOfParts(neg,
             Before(body, EarlierOf(FirstIndex(body, "e"),
                                    FirstIndex(body, "E"))),
             EarlierOf(FirstIndex(body, "e"), FirstIndex(body, "E")) # 0,
             After(body, EarlierOf(FirstIndex(body, "e"),
                                   FirstIndex(body, "E"))))

\* the literal without white space and underscores
FloatOfLiteral(u) ==
    FloatOfBody(Minus(u), Unsigned(u))

\* float(s): white space around the literal is dropped; the literal is an
\* optional sign and then inf, infinity or nan in any case, or digits with
\* an optional point and an optional exponent, the digits of any script and
\* with single underscores between them
PyFloat(s) ==
    IF ~UnderscoresAllowed(RStripSet(LStripSet(s, FloatSpace), FloatSpace))
    THEN ValueError
    ELSE FloatOfLiteral(Remove(RStripSet(LStripSet(s, FloatSpace),
                                         FloatSpace), "_"))

\* the finite value of a float
ValueOf(f) ==
    Decimal(f.neg, f.int, f.frac)

\* base.py 74-75: a confidence above 1.0 is a percentage
Percentage(x) ==
    IF Less(One, x) THEN Div100(x) ELSE x

\* base.py 76, max(0.0, min(1.0, y)): min(1.0, y) is y when y < 1.0 and 1.0
\* otherwise, max(0.0, y) is y when y > 0.0 and 0.0 otherwise
Clamped(y) ==
    IF ~Less(y, One) THEN One
    ELSE IF ~Less(Zero, y) THEN Zero
    ELSE y

\* variant: a value above 1.0 is clamped without the division by 100
NormalizeConfidenceClampOnly(f) ==
    IF f.kind = "nan" THEN One
    ELSE IF f.kind = "inf" THEN (IF f.neg THEN Zero ELSE One)
    ELSE Clamped(ValueOf(f))

\* variant: the division by 100 without the clamp into [0.0, 1.0]
NormalizeConfidenceUnclamped(f) ==
    IF f.kind = "nan" THEN One
    ELSE IF f.kind = "inf" THEN (IF f.neg THEN Zero ELSE One)
    ELSE Percentage(ValueOf(f))

\* base.py 74-76:  if confidence > 1.0: confidence = confidence / 100.0
\*                 judgment['confidence'] = max(0.0, min(1.0, confidence))
\* nan is not above 1.0 and min(1.0, nan) is 1.0; inf / 100.0 is inf.
NormalizeConfidence(f) ==
    IF f.kind = "nan" THEN One
    ELSE IF f.kind = "inf" THEN (IF f.neg THEN Zero ELSE One)
    ELSE Clamped(Percentage(ValueOf(f)))

(***************************************************************************)
(* agents/base.py  BaseAgent.extract_judgment                              *)
(***************************************************************************)
Verdicts ==
    {"CONSISTENT", "CONTRADICTORY", "INSUFFICIENT"}

\* the three accepted verdict texts
VerdictText ==
    [CONSISTENT    |-> <<"C","O","N","S","I","S","T","E","N","T">>,
     CONTRADICTORY |-> <<"C","O","N","T","R","A","D","I","C","T","O","R","Y">>,
     INSUFFICIENT  |-> <<"I","N","S","U","F","F","I","C","I","E","N","T">>]

sVERDICT ==
    <<"V","E","R","D","I","C","T",":">>

sCONFIDENCE ==
    <<"C","O","N","F","I","D","E","N","C","E",":">>

sREASONING ==
    <<"R","E","A","S","O","N","I","N","G",":">>

\* 'LLM returned empty response'
MsgEmptyResponse ==
    <<"L","L","M"," ","r","e","t","u","r","n","e","d"," ","e","m","p","t","y"," ","r","e","s","p","o","n","s","e">>

\* None, the no-output signal of generate()
None ==
    [some |-> FALSE, text |-> <<>>]

Text(s) ==
    [some |-> TRUE, text |-> s]

\* variant: tests "response is not None", so '' counts as text
TruthyNotNone(response) ==
    response.some

\* Python truthiness of an Optional[str]
Truthy(response) ==
    response.some /\ response.text # <<>>

\* an exception that leaves extract_judgment in place of a judgment
Exception(name) ==
    [verdict |-> name, confidence |-> Zero, reasoning |-> <<>>]

IsException(judgment) ==
    judgment.verdict \notin Verdicts

\* base.py 62-67: the verdict is set when the text after the colon names one
SetVerdict(judgment, verdict) ==
    IF \E v \in Verdicts : VerdictText[v] = verdict
    THEN [judgment EXCEPT !.verdict =
             CHOOSE v \in Verdicts : VerdictText[v] = verdict]
    ELSE judgment

\* base.py 69-78: the confidence is set when float() reads conf_str
SetConfidence(judgment, f) ==
    IF f.ok THEN [judgment EXCEPT !.confidence = NormalizeConfidence(f)]
    ELSE judgment

\* base.py 80-83: a reasoning that is not empty is set
SetReasoning(judgment, reasoning) ==
    IF reasoning # <<>> THEN [judgment EXCEPT !.reasoning = reasoning]
    ELSE judgment

\* the tests of one line, line_upper being line.upper()
ScanUpper(line, line_upper, no_colon, judgment) ==
    IF StartsWith(line_upper, sVERDICT)
    THEN IF no_colon THEN Exception("IndexError")
         ELSE SetVerdict(judgment, Upper(Strip(AfterFirst(line, ":"))))
    ELSE IF StartsWith(line_upper, sCONFIDENCE)
    THEN IF no_colon THEN judgment
         ELSE SetConfidence(judgment,
                            PyFloat(Strip(Remove(Strip(AfterFirst(line, ":")),
                                                 "%"))))
    ELSE IF StartsWith(line_upper, sREASONING)
    THEN IF no_colon THEN Exception("IndexError")
         ELSE SetReasoning(judgment, Strip(AfterFirst(line, ":")))
    ELSE judgment

\* one iteration of the loop over the lines of the response (base.py 59-83).
\* line.split(':', 1)[1] raises IndexError on a line without a colon; in
\* the CONFIDENCE branch it is inside the try, like the ValueError of float.
ScanLine(line, judgment) ==
    ScanUpper(line, Upper(line), FirstIndex(line, ":") = 0, judgment)

RECURSIVE ScanLines(_, _)
\* the loop stops at the first exception
ScanLines(lines, judgment) ==
    IF lines = <<>> \/ IsException(judgment) THEN judgment
    ELSE ScanLines(Tail(lines), ScanLine(Head(lines), judgment))

\* variant: no test "if not response"; None.split raises AttributeError
extract_judgment_unguarded(response) ==
    IF ~response.some THEN Exception("AttributeError")
    ELSE ScanLines(Split(response.text, "\n"),
                   [verdict |-> "INSUFFICIENT", confidence |-> Zero,
                    reasoning |-> response.text])

\* variant: the pre-parse default verdict is CONSISTENT
extract_judgment_default_consistent(response) ==
    IF ~Truthy(response)
    THEN [verdict |-> "INSUFFICIENT", confidence |-> Zero,
          reasoning |-> MsgEmptyResponse]
    ELSE ScanLines(Split(response.text, "\n"),
                   [verdict |-> "CONSISTENT", confidence |-> Zero,
                    reasoning |-> response.text])

extract_judgment(response) ==
    IF ~Truthy(response)
    THEN [verdict |-> "INSUFFICIENT", confidence |-> Zero,
          reasoning |-> MsgEmptyResponse]
    ELSE ScanLines(Split(response.text, "\n"),
                   [verdict |-> "INSUFFICIENT", confidence |-> Zero,
                    reasoning |-> response.text])

(***************************************************************************)
(* agents/prosecutor.py, agents/defense.py  analyze_claim                  *)
(* Each operator returns the judgment and the sequence of task types of the *)
(* generate() calls it made; response is what generate() returned.         *)
(***************************************************************************)
\* 'No evidence available for analysis'
MsgNoEvidence ==
    <<"N","o"," ","e","v","i","d","e","n","c","e"," ","a","v","a","i","l","a","b","l","e"," ","f","o","r"," ","a","n","a","l","y","s","i","s">>

\* 'LLM call failed'
MsgCallFailed ==
    <<"L","L","M"," ","c","a","l","l"," ","f","a","i","l","e","d">>

\* variant: [e['chunk_id'] for e in evidence], without the slice
EvidenceUsedAll(evidence) ==
    [k \in 1..Len(evidence) |-> evidence[k].chunk_id]

\* [e['chunk_id'] for e in evidence[:5]]
EvidenceUsed(evidence) ==
    [k \in 1..(IF Len(evidence) < 5 THEN Len(evidence) ELSE 5) |->
        evidence[k].chunk_id]

\* prosecutor.py 63-65, defense.py 62-64: judgment['evidence_used'] = ...
WithEvidenceUsed(judgment, evidence_used) ==
    [verdict       |-> judgment.verdict,
     confidence    |-> judgment.confidence,
     reasoning     |-> judgment.reasoning,
     evidence_used |-> evidence_used]

\* variant: no short-circuit on empty evidence, the generator is always
\* called
AnalyzeClaimAlwaysCalls(task_type, claim, evidence, response) ==
    IF ~Truthy(response)
    THEN [judgment |-> [verdict |-> "INSUFFICIENT", confidence |-> Zero,
                        reasoning |-> MsgCallFailed, evidence_used |-> <<>>],
          calls |-> <<task_type>>]
    ELSE [judgment |-> WithEvidenceUsed(extract_judgment(response),
                                        EvidenceUsed(evidence)),
          calls |-> <<task_type>>]

\* variant: the failure test is "response is None", so '' is parsed
AnalyzeClaimNoneOnly(task_type, claim, evidence, response) ==
    IF evidence = <<>>
    THEN [judgment |-> [verdict |-> "INSUFFICIENT", confidence |-> Zero,
                        reasoning |-> MsgNoEvidence, evidence_used |-> <<>>],
          calls |-> <<>>]
    ELSE IF ~response.some
    THEN [judgment |-> [verdict |-> "INSUFFICIENT", confidence |-> Zero,
                        reasoning |-> MsgCallFailed, evidence_used |-> <<>>],
          calls |-> <<task_type>>]
    ELSE [judgment |-> WithEvidenceUsed(extract_judgment(response),
                                        EvidenceUsed(evidence)),
          calls |-> <<task_type>>]

\* variant: a failed call is made a second time before giving up
AnalyzeClaimRetriesOnce(task_type, claim, evidence, response) ==
    IF evidence = <<>>
    THEN [judgment |-> [verdict |-> "INSUFFICIENT", confidence |-> Zero,
                        reasoning |-> MsgNoEvidence, evidence_used |-> <<>>],
          calls |-> <<>>]
    ELSE IF ~Truthy(response)
    THEN [judgment |-> [verdict |-> "INSUFFICIENT", confidence |-> Zero,
                        reasoning |-> MsgCallFailed, evidence_used |-> <<>>],
          calls |-> <<task_type, task_type>>]
    ELSE [judgment |-> WithEvidenceUsed(extract_judgment(response),
                                        EvidenceUsed(evidence)),
          calls |-> <<task_type>>]

AnalyzeClaim(task_type, claim, evidence, response) ==
    IF evidence = <<>>
    THEN [judgment |-> [verdict |-> "INSUFFICIENT", confidence |-> Zero,
                        reasoning |-> MsgNoEvidence, evidence_used |-> <<>>],
          calls |-> <<>>]
    ELSE IF ~Truthy(response)
    THEN [judgment |-> [verdict |-> "INSUFFICIENT", confidence |-> Zero,
                        reasoning |-> MsgCallFailed, evidence_used |-> <<>>],
          calls |-> <<task_type>>]
    ELSE [judgment |-> WithEvidenceUsed(extract_judgment(response),
                                        EvidenceUsed(evidence)),
          calls |-> <<task_type>>]

prosecutor_analyze_claim(claim, evidence, response) ==
    AnalyzeClaim("prosecutor", claim, evidence, response)

defense_analyze_claim(claim, evidence, response) ==
    AnalyzeClaim("defense", claim, evidence, response)

(***************************************************************************)
(* agents/judge.py  JudgeAgent.deliberate                                  *)
(***************************************************************************)
\* the literal 0.7 of judge.py line 31 and constraints.py line 29
HardCutoff ==
    Thousandths(700)

\* 'Both sides lack sufficient evidence'
MsgBothInsufficient ==
    <<"B","o","t","h"," ","s","i","d","e","s"," ","l","a","c","k"," ","s","u","f","f","i","c","i","e","n","t"," ","e","v","i","d","e","n","c","e">>

\* 'Hard contradiction found: '
MsgHardPrefix ==
    <<"H","a","r","d"," ","c","o","n","t","r","a","d","i","c","t","i","o","n"," ","f","o","u","n","d",":"," ">>

\* 'Both sides agree: consistent'
MsgBothAgree ==
    <<"B","o","t","h"," ","s","i","d","e","s"," ","a","g","r","e","e",":"," ","c","o","n","s","i","s","t","e","n","t">>

\* variant: only zero-confidence judgments count as lacking evidence
BothInsufficientAtZero(prosecutor_judgment, defense_judgment) ==
    /\ prosecutor_judgment.verdict = "INSUFFICIENT"
    /\ defense_judgment.verdict = "INSUFFICIENT"
    /\ prosecutor_judgment.confidence = Zero
    /\ defense_judgment.confidence = Zero

\* judge.py 21-22
BothInsufficient(prosecutor_judgment, defense_judgment) ==
    /\ prosecutor_judgment.verdict = "INSUFFICIENT"
    /\ defense_judgment.verdict = "INSUFFICIENT"

\* variant: cutoff 0.9 in place of 0.7
StrongContradictionAbove09(prosecutor_judgment) ==
    /\ prosecutor_judgment.verdict = "CONTRADICTORY"
    /\ Less(Thousandths(900), prosecutor_judgment.confidence)

\* judge.py 30-31
StrongContradiction(prosecutor_judgment) ==
    /\ prosecutor_judgment.verdict = "CONTRADICTORY"
    /\ Less(HardCutoff, prosecutor_judgment.confidence)

\* variant: the third rule tests the verdict of the defense only
DefenseConsistent(prosecutor_judgment, defense_judgment) ==
    defense_judgment.verdict = "CONSISTENT"

\* judge.py 39-40
BothConsistent(prosecutor_judgment, defense_judgment) ==
    /\ prosecutor_judgment.verdict = "CONSISTENT"
    /\ defense_judgment.verdict = "CONSISTENT"

\* variant: a + b / 2, the division binding tighter than the sum
MeanNoParentheses(a, b) ==
    Add(a, Half(b))

\* (a + b) / 2
Mean(a, b) ==
    Half(Add(a, b))

\* variant: the hard-contradiction rule yields to a defense that is
\* CONSISTENT with at least the prosecutor's confidence
deliberate_weighing_defense(claim, prosecutor_judgment, defense_judgment, response) ==
    IF BothInsufficient(prosecutor_judgment, defense_judgment)
    THEN [judgment |-> [verdict |-> "INSUFFICIENT", confidence |-> Zero,
                        reasoning |-> MsgBothInsufficient],
          calls |-> <<>>]
    ELSE IF /\ StrongContradiction(prosecutor_judgment)
            /\ ~(/\ defense_judgment.verdict = "CONSISTENT"
                  /\ ~Less(defense_judgment.confidence,
                           prosecutor_judgment.confidence))
    THEN [judgment |-> [verdict |-> "CONTRADICTORY",
                        confidence |-> prosecutor_judgment.confidence,
                        reasoning |-> MsgHardPrefix \o
                                      prosecutor_judgment.reasoning],
          calls |-> <<>>]
    ELSE IF BothConsistent(prosecutor_judgment, defense_judgment)
    THEN [judgment |-> [verdict |-> "CONSISTENT",
                        confidence |-> Mean(prosecutor_judgment.confidence,
                                            defense_judgment.confidence),
                        reasoning |-> MsgBothAgree],
          calls |-> <<>>]
    ELSE IF ~Truthy(response)
    THEN [judgment |-> prosecutor_judgment, calls |-> <<"judge">>]
    ELSE [judgment |-> extract_judgment(response), calls |-> <<"judge">>]

\* variant: after arbitration a CONTRADICTORY prosecutor is kept whatever
\* the generator answered
deliberate_keeping_contradiction(claim, prosecutor_judgment, defense_judgment, response) ==
    IF BothInsufficient(prosecutor_judgment, defense_judgment)
    THEN [judgment |-> [verdict |-> "INSUFFICIENT", confidence |-> Zero,
                        reasoning |-> MsgBothInsufficient],
          calls |-> <<>>]
    ELSE IF StrongContradiction(prosecutor_judgment)
    THEN [judgment |-> [verdict |-> "CONTRADICTORY",
                        confidence |-> prosecutor_judgment.confidence,
                        reasoning |-> MsgHardPrefix \o
                                      prosecutor_judgment.reasoning],
          calls |-> <<>>]
    ELSE IF BothConsistent(prosecutor_judgment, defense_judgment)
    THEN [judgment |-> [verdict |-> "CONSISTENT",
                        confidence |-> Mean(prosecutor_judgment.confidence,
                                            defense_judgment.confidence),
                        reasoning |-> MsgBothAgree],
          calls |-> <<>>]
    ELSE IF ~Truthy(response) \/ prosecutor_judgment.verdict = "CONTRADICTORY"
    THEN [judgment |-> prosecutor_judgment, calls |-> <<"judge">>]
    ELSE [judgment |-> extract_judgment(response), calls |-> <<"judge">>]

\* variant: without the hard-contradiction rule, so that a strong
\* contradiction against a defense goes to arbitration
deliberate_without_hard_rule(claim, prosecutor_judgment, defense_judgment, response) ==
    IF BothInsufficient(prosecutor_judgment, defense_judgment)
    THEN [judgment |-> [verdict |-> "INSUFFICIENT", confidence |-> Zero,
                        reasoning |-> MsgBothInsufficient],
          calls |-> <<>>]
    ELSE IF BothConsistent(prosecutor_judgment, defense_judgment)
    THEN [judgment |-> [verdict |-> "CONSISTENT",
                        confidence |-> Mean(prosecutor_judgment.confidence,
                                            defense_judgment.confidence),
                        reasoning |-> MsgBothAgree],
          calls |-> <<>>]
    ELSE IF ~Truthy(response)
    THEN [judgment |-> prosecutor_judgment, calls |-> <<"judge">>]
    ELSE [judgment |-> extract_judgment(response), calls |-> <<"judge">>]

deliberate(claim, prosecutor_judgment, defense_judgment, response) ==
    IF BothInsufficient(prosecutor_judgment, defense_judgment)
    THEN [judgment |-> [verdict |-> "INSUFFICIENT", confidence |-> Zero,
                        reasoning |-> MsgBothInsufficient],
          calls |-> <<>>]
    ELSE IF StrongContradiction(prosecutor_judgment)
    THEN [judgment |-> [verdict |-> "CONTRADICTORY",
                        confidence |-> prosecutor_judgment.confidence,
                        reasoning |-> MsgHardPrefix \o
                                      prosecutor_judgment.reasoning],
          calls |-> <<>>]
    ELSE IF BothConsistent(prosecutor_judgment, defense_judgment)
    THEN [judgment |-> [verdict |-> "CONSISTENT",
                        confidence |-> Mean(prosecutor_judgment.confidence,
                                            defense_judgment.confidence),
                        reasoning |-> MsgBothAgree],
          calls |-> <<>>]
    ELSE IF ~Truthy(response)
    THEN [judgment |-> prosecutor_judgment, calls |-> <<"judge">>]
    ELSE [judgment |-> extract_judgment(response), calls |-> <<"judge">>]

\* the three deterministic rules of deliberate, numbered in the order of
\* the code: judge.py 21-22, 30-31 and 39-40
RuleApplies(rule, prosecutor_judgment, defense_judgment) ==
    IF rule = 1 THEN BothInsufficient(prosecutor_judgment, defense_judgment)
    ELSE IF rule = 2 THEN StrongContradiction(prosecutor_judgment)
    ELSE BothConsistent(prosecutor_judgment, defense_judgment)

\* what each rule returns: judge.py 23-27, 32-36 and 41-46
RuleJudgment(rule, prosecutor_judgment, defense_judgment) ==
    IF rule = 1
    THEN [verdict |-> "INSUFFICIENT", confidence |-> Zero,
          reasoning |-> MsgBothInsufficient]
    ELSE IF rule = 2
    THEN [verdict |-> "CONTRADICTORY",
          confidence |-> prosecutor_judgment.confidence,
          reasoning |-> MsgHardPrefix \o prosecutor_judgment.reasoning]
    ELSE [verdict |-> "CONSISTENT",
          confidence |-> Mean(prosecutor_judgment.confidence,
                              defense_judgment.confidence),
          reasoning |-> MsgBothAgree]

\* the orders in which the three rules can be tested
RuleOrders ==
    {order \in [1..3 -> 1..3] : \A a, b \in 1..3 : a # b => order[a] # order[b]}

\* deliberate with its three rules tested in the given order, the
\* arbitration call (judge.py 49-83) after them
deliberate_in_order(order, claim, prosecutor_judgment, defense_judgment, response) ==
    LET applicable ==
            SelectSeq(order,
                      LAMBDA rule : RuleApplies(rule, prosecutor_judgment,
                                                defense_judgment))
    IN  IF applicable # <<>>
        THEN [judgment |-> RuleJudgment(applicable[1], prosecutor_judgment,
                                        defense_judgment),
              calls |-> <<>>]
        ELSE IF ~Truthy(response)
        THEN [judgment |-> prosecutor_judgment, calls |-> <<"judge">>]
        ELSE [judgment |-> extract_judgment(response), calls |-> <<"judge">>]

(***************************************************************************)
(* reasoning/constraints.py  ConstraintTracker                             *)
(***************************************************************************)
EmptyClassification ==
    [hard_contradictions |-> 0, soft_contradictions |-> 0,
     consistent_claims |-> 0, insufficient_evidence |-> 0]

\* variant: a CONTRADICTORY verdict at or below the cutoff is not counted
ClassifyOneHardOnly(classification, delib) ==
    LET verdict    == delib.final.verdict
        confidence == delib.final.confidence
    IN  IF verdict = "CONTRADICTORY"
        THEN IF Less(HardCutoff, confidence)
             THEN [classification EXCEPT !.hard_contradictions = @ + 1]
             ELSE classification
        ELSE IF verdict = "CONSISTENT"
        THEN [classification EXCEPT !.consistent_claims = @ + 1]
        ELSE [classification EXCEPT !.insufficient_evidence = @ + 1]

\* variant: the prosecutor's judgment is classified, not the final one
ClassifyOneByProsecutor(classification, delib) ==
    LET verdict    == delib.prosecutor.verdict
        confidence == delib.prosecutor.confidence
    IN  IF verdict = "CONTRADICTORY"
        THEN IF Less(HardCutoff, confidence)
             THEN [classification EXCEPT !.hard_contradictions = @ + 1]
             ELSE [classification EXCEPT !.soft_contradictions = @ + 1]
        ELSE IF verdict = "CONSISTENT"
        THEN [classification EXCEPT !.consistent_claims = @ + 1]
        ELSE [classification EXCEPT !.insufficient_evidence = @ + 1]

\* variant: confidence >= 0.7 already counts as a hard contradiction
ClassifyOneAtLeastCutoff(classification, delib) ==
    LET verdict    == delib.final.verdict
        confidence == delib.final.confidence
    IN  IF verdict = "CONTRADICTORY"
        THEN IF ~Less(confidence, HardCutoff)
             THEN [classification EXCEPT !.hard_contradictions = @ + 1]
             ELSE [classification EXCEPT !.soft_contradictions = @ + 1]
        ELSE IF verdict = "CONSISTENT"
        THEN [classification EXCEPT !.consistent_claims = @ + 1]
        ELSE [classification EXCEPT !.insufficient_evidence = @ + 1]

\* body of the loop over the deliberations (constraints.py 24-38)
ClassifyOne(classification, delib) ==
    LET verdict    == delib.final.verdict
        confidence == delib.final.confidence
    IN  IF verdict = "CONTRADICTORY"
        THEN IF Less(HardCutoff, confidence)
             THEN [classification EXCEPT !.hard_contradictions = @ + 1]
             ELSE [classification EXCEPT !.soft_contradictions = @ + 1]
        ELSE IF verdict = "CONSISTENT"
        THEN [classification EXCEPT !.consistent_claims = @ + 1]
        ELSE [classification EXCEPT !.insufficient_evidence = @ + 1]

RECURSIVE ClassifyFrom(_, _)
ClassifyFrom(classification, delibs) ==
    IF delibs = <<>> THEN classification
    ELSE ClassifyFrom(ClassifyOne(classification, Head(delibs)), Tail(delibs))

classify_constraints(delibs) ==
    ClassifyFrom(EmptyClassification, delibs)

\* variant: more than one hard contradiction is needed
has_critical_violations_above_one(classification) ==
    classification.hard_contradictions > 1

has_critical_violations(classification) ==
    classification.hard_contradictions > 0

\* sum(classification.values())
ClassificationTotal(classification) ==
    classification.hard_contradictions + classification.soft_contradictions
        + classification.consistent_claims
        + classification.insufficient_evidence

\* variant: no test for total == 0 before the division
get_evidence_coverage_unguarded(classification) ==
    LET total == ClassificationTotal(classification)
    IN  [num |-> total - classification.insufficient_evidence, den |-> total]

\* variant: an empty classification counts as fully covered
get_evidence_coverage_full_when_empty(classification) ==
    LET total == ClassificationTotal(classification)
    IN  IF total = 0 THEN [num |-> 1, den |-> 1]
        ELSE [num |-> total - classification.insufficient_evidence,
              den |-> total]

\* the returned float as the fraction num / den (0.0 is 0 / 1)
get_evidence_coverage(classification) ==
    LET total == ClassificationTotal(classification)
    IN  IF total = 0 THEN [num |-> 0, den |-> 1]
        ELSE [num |-> total - classification.insufficient_evidence,
              den |-> total]

(***************************************************************************)
(* scoring/scorer.py  BackstoryScorer                                      *)
(* Weights are integers in units of 1/WeightScale and the threshold in     *)
(* units of 1/ThresholdScale.                                              *)
(***************************************************************************)
WeightScale ==
    2 * 2

ThresholdScale ==
    2 * 2

\* variant: coverage < self.insufficient_threshold
CoverageBelowThreshold(coverage, insufficient_threshold) ==
    coverage.num * ThresholdScale < insufficient_threshold * coverage.den

\* coverage < (1 - self.insufficient_threshold)
CoverageBelow(coverage, insufficient_threshold) ==
    coverage.num * ThresholdScale
        < (ThresholdScale - insufficient_threshold) * coverage.den

\* variant: soft contradictions add to the score
WeightedScoreSoftAdded(scoring, classification) ==
    0 - classification.hard_contradictions * scoring.hard_contradiction_weight
      + classification.soft_contradictions * scoring.soft_contradiction_weight
      + classification.consistent_claims * scoring.support_weight

\* score of RULE 3 (scorer.py 45-48), in units of 1/WeightScale
WeightedScore(scoring, classification) ==
    0 - classification.hard_contradictions * scoring.hard_contradiction_weight
      - classification.soft_contradictions * scoring.soft_contradiction_weight
      + classification.consistent_claims * scoring.support_weight

\* The rationale is kept as the name of its f-string and the values that
\* are substituted into it.
compute_score(scoring, delibs) ==
    LET classification == classify_constraints(delibs)
        coverage       == get_evidence_coverage(classification)
        score          == WeightedScore(scoring, classification)
    IN  IF has_critical_violations(classification)
        THEN [label |-> 0,
              rationale |-> [text |-> "CONTRADICTORY: Found {} hard contradiction(s)",
                             args |-> <<classification.hard_contradictions>>]]
        ELSE IF CoverageBelow(coverage, scoring.insufficient_evidence_threshold)
        THEN [label |-> 0,
              rationale |-> [text |-> "CONTRADICTORY (conservative): Only {} of claims",
                             args |-> <<coverage.num, coverage.den>>]]
        ELSE IF score >= 0
        THEN [label |-> 1,
              rationale |-> [text |-> "CONSISTENT: {} claims supported, {} minor conflicts",
                             args |-> <<classification.consistent_claims,
                                        classification.soft_contradictions>>]]
        ELSE [label |-> 0,
              rationale |-> [text |-> "CONTRADICTORY: {} contradictions outweigh {}",
                             args |-> <<classification.soft_contradictions,
                                        classification.consistent_claims>>]]

(***************************************************************************)
(* reasoning/debate.py  DebateOrchestrator.extract_claims                  *)
(* A backstory is the content cell of an input row: a str, or the float    *)
(* nan that pandas gives for an empty cell.  A label cell is a str, or the *)
(* int of a numeric label column.  A call that can raise returns           *)
(* either Return(value) or Raise(error), error being str(e).               *)
(***************************************************************************)
Str(text) ==
    [isstr |-> TRUE, text |-> text]

NaN ==
    [isstr |-> FALSE, text |-> <<>>]

\* the cell of a column that read_csv parsed as integers
Integer(n) ==
    [isstr |-> FALSE, text |-> <<>>, int |-> n]

\* type(cell).__name__
TypeName(cell) ==
    IF cell.isstr THEN <<"s","t","r">>
    ELSE IF "int" \in DOMAIN cell THEN <<"i","n","t">>
    ELSE <<"f","l","o","a","t">>

Return(value) ==
    [raised |-> FALSE, value |-> value, error |-> <<>>]

Raise(error) ==
    [raised |-> TRUE, value |-> <<>>, error |-> error]

\* "'float' object has no attribute 'split'"
MsgNoSplit ==
    <<"'","f","l","o","a","t","'"," ","o","b","j","e","c","t"," ","h","a","s"," ","n","o"," ","a","t","t","r","i","b","u","t","e"," ","'","s","p","l","i","t","'">>

\* "'float' object is not subscriptable"
MsgNotSubscriptable ==
    <<"'","f","l","o","a","t","'"," ","o","b","j","e","c","t"," ","i","s"," ","n","o","t"," ","s","u","b","s","c","r","i","p","t","a","b","l","e">>

\* the character U+2022 (bullet)
Bullet ==
    "U+2022"

\* the character U+00B2 (superscript two): str.isdigit() holds of it, and
\* it is not one of the characters that lstrip removes
SuperscriptTwo ==
    "U+00B2"

\* line[0].isdigit()
IsDigitChar(c) ==
    IsDigit(c) \/ c \in OtherDigits

\* the characters of '0123456789.-•)'
NumberingChars ==
    {DigitChars[k] : k \in DOMAIN DigitChars} \cup {".", "-", Bullet, ")"}

\* min(5, self.config['agents']['max_claims_per_backstory'])
MaxClaimsOf(cfg) ==
    IF 5 < cfg.agents.max_claims_per_backstory THEN 5
    ELSE cfg.agents.max_claims_per_backstory

\* [s.strip() + '.' for s in backstory.split('.') if len(s.strip()) > 20]
Sentences(text) ==
    LET kept == SelectSeq(Split(text, "."), LAMBDA s : Len(Strip(s)) > 20)
    IN  [k \in 1..Len(kept) |-> Strip(kept[k]) \o <<".">>]

\* variant: a candidate of 15 characters is kept (len(claim) >= 15)
ClaimsOfLineAtLeast15(raw) ==
    LET line == Strip(raw)
    IN  IF line # <<>> /\ (\/ IsDigitChar(line[1])
                           \/ StartsWith(line, <<"-">>)
                           \/ StartsWith(line, <<Bullet>>))
        THEN LET claim == Strip(LStripSet(line, NumberingChars))
             IN  IF claim # <<>> /\ Len(claim) >= 15 THEN <<claim>> ELSE <<>>
        ELSE <<>>

\* debate.py 61-67: the claims one line of the response adds
ClaimsOfLine(raw) ==
    LET line == Strip(raw)
    IN  IF line # <<>> /\ (\/ IsDigitChar(line[1])
                           \/ StartsWith(line, <<"-">>)
                           \/ StartsWith(line, <<Bullet>>))
        THEN LET claim == Strip(LStripSet(line, NumberingChars))
             IN  IF claim # <<>> /\ Len(claim) > 15 THEN <<claim>> ELSE <<>>
        ELSE <<>>

RECURSIVE ParseClaims(_)
\* debate.py 60-67: the loop over response.split('\n')
ParseClaims(lines) ==
    IF lines = <<>> THEN <<>>
    ELSE ClaimsOfLine(Head(lines)) \o ParseClaims(Tail(lines))

\* variant: the sentence-split fallback returns every sentence
extract_claims_unsliced_fallback(cfg, backstory, response) ==
    LET max_claims == MaxClaimsOf(cfg)
    IN  IF ~Truthy(response)
        THEN IF ~backstory.isstr THEN Raise(MsgNoSplit)
             ELSE Return(Sentences(backstory.text))
        ELSE LET parsed == ParseClaims(Split(response.text, "\n"))
             IN  IF parsed = <<>>
                 THEN IF ~backstory.isstr THEN Raise(MsgNotSubscriptable)
                      ELSE Return(Prefix(<<Prefix(backstory.text, 200)>>,
                                         max_claims))
                 ELSE Return(Prefix(parsed, max_claims))

\* debate.py 19-73; response is what generate() returned
extract_claims(cfg, backstory, response) ==
    LET max_claims == MaxClaimsOf(cfg)
    IN  IF ~Truthy(response)
        THEN IF ~backstory.isstr THEN Raise(MsgNoSplit)
             ELSE Return(Prefix(Sentences(backstory.text), max_claims))
        ELSE LET parsed == ParseClaims(Split(response.text, "\n"))
             IN  IF parsed = <<>>
                 THEN IF ~backstory.isstr THEN Raise(MsgNotSubscriptable)
                      ELSE Return(Prefix(<<Prefix(backstory.text, 200)>>,
                                         max_claims))
                 ELSE Return(Prefix(parsed, max_claims))

(***************************************************************************)
(* Inputs: claim texts, evidence and generator outputs                     *)
(***************************************************************************)
\* 'Tom met Ann in Paris in 1850'
ClaimParis ==
    <<"T","o","m"," ","m","e","t"," ","A","n","n"," ","i","n"," ","P","a","r","i","s"," ","i","n"," ","1","8","5","0">>

\* the reply to the claim-extraction prompt that yields ClaimParis
ClaimListReply ==
    <<"1", ".", " ">> \o ClaimParis

\* a retrieved chunk; chunk_id f"{book_id}_chunk_{k}" is kept as the pair
Chunk(book_id, k, similarity) ==
    [book_id |-> book_id, chunk_id |-> <<book_id, k>>, position |-> k,
     similarity |-> similarity]

\* number of chunks of the longest evidence sequence
MaxEvidence ==
    6

\* evidence sequences with n chunks in rank order (falling similarity);
\* the positions of the chunks in the book are 0, 3, 6, ... modulo
\* MaxEvidence + 1, so rank order is not position order
EvidenceOfLen(n) ==
    [k \in 1..n |-> Chunk("book", (3 * (k - 1)) % (MaxEvidence + 1),
                          ConfScale - 100 * k)]

EvidenceSets ==
    {EvidenceOfLen(0), EvidenceOfLen(1), EvidenceOfLen(MaxEvidence)}

\* 'dates clash'
ReasonText ==
    <<"d","a","t","e","s"," ","c","l","a","s","h">>

\* a well-formed reply: the three labelled lines of the OUTPUT FORMAT
Reply(verdict, confidence, reasoning) ==
    sVERDICT \o <<" ">> \o verdict \o <<"\n">>
        \o sCONFIDENCE \o <<" ">> \o confidence \o <<"\n">>
        \o sREASONING \o <<" ">> \o reasoning

ConfidenceWords ==
    {<<"0",".","9">>, <<"0",".","7">>, <<"0",".","6">>, <<"0",".","8">>,
     <<"0",".","7","0","0","5">>,
     <<"0",".","7","0","0","0","0","0","0","0","0","0","0","0","0","0","0","0","1">>}

WellFormedReplies ==
    {Reply(VerdictText[v], c, ReasonText) : v \in Verdicts, c \in ConfidenceWords}

\* lower-case keys and a percentage
ReplyLowerPercent ==
    <<"v","e","r","d","i","c","t",":"," ","c","o","n","t","r","a","d","i","c","t","o","r","y">> \o <<"\n">> \o <<"c","o","n","f","i","d","e","n","c","e",":"," ","8","7","%">> \o <<"\n">>
        \o <<"r","e","a","s","o","n","i","n","g",":"," ","n","o"," ","s","u","c","h"," ","t","r","i","p">>

\* unknown verdict word, confidence above 1.0, no reasoning line
ReplyUnknownVerdict ==
    <<"V","E","R","D","I","C","T",":"," ","M","A","Y","B","E">> \o <<"\n">> \o <<"C","O","N","F","I","D","E","N","C","E",":"," ","1",".","5">>

\* free text without any labelled line
ReplyFreeText ==
    <<"I"," ","t","h","i","n","k"," ","i","t"," ","i","s"," ","f","i","n","e">>

\* 'VERDICT: CONTRADICTORY', 'CONFIDENCE: 150', 'REASONING: far too late'
ReplyConfidence150 ==
    <<"V","E","R","D","I","C","T",":"," ","C","O","N","T","R","A","D","I","C","T","O","R","Y">> \o <<"\n">> \o <<"C","O","N","F","I","D","E","N","C","E",":"," ","1","5","0">> \o <<"\n">>
        \o <<"R","E","A","S","O","N","I","N","G",":"," ","f","a","r"," ","t","o","o"," ","l","a","t","e">>

\* 'VERDICT: CONSISTENT', 'CONFIDENCE: -0.5', 'REASONING: no doubt'
ReplyConfidenceNegative ==
    <<"V","E","R","D","I","C","T",":"," ","C","O","N","S","I","S","T","E","N","T">> \o <<"\n">> \o <<"C","O","N","F","I","D","E","N","C","E",":"," ","-","0",".","5">> \o <<"\n">>
        \o <<"R","E","A","S","O","N","I","N","G",":"," ","n","o"," ","d","o","u","b","t">>

\* 'verd\u0131ct: contradictory\x0b', 'CONFIDENCE: 70.04\xa0%',
\* 'REASONING: off by a year': a key that only upper() turns into VERDICT,
\* a vertical tab and a no-break space that strip() removes, and a
\* percentage that gives 0.7004
ReplyDotlessPercent ==
    <<"v","e","r","d","U+0131","c","t",":"," ","c","o","n","t","r","a","d","i","c","t","o","r","y","U+000B">> \o <<"\n">>
        \o <<"C","O","N","F","I","D","E","N","C","E",":"," ","7","0",".","0","4","U+00A0","%">> \o <<"\n">>
        \o <<"R","E","A","S","O","N","I","N","G",":"," ","o","f","f"," ","b","y"," ","a"," ","y","e","a","r">>

MalformedReplies ==
    {ReplyLowerPercent, ReplyUnknownVerdict, ReplyFreeText, ReplyConfidence150,
     ReplyConfidenceNegative, ReplyDotlessPercent, <<>>}

\* what generate() can return in the debate of one claim
DebateOutputs ==
    {Text(t) : t \in WellFormedReplies \cup MalformedReplies} \cup {None}

(***************************************************************************)
(* pathway_pipeline/index.py  NovelIndexer.index and get_book_index;       *)
(* retrieval/retrieve.py  EvidenceRetriever                                *)
(* The index maps a book id to its chunks and their embeddings.  The       *)
(* encoder is external: the embedding of a chunk is kept as the cosine     *)
(* similarity it has with each query text, in units of 1/ConfScale.        *)
(***************************************************************************)
\* a chunk as ingest.py builds it (the text and the word count left out)
IndexChunk(book_id, k) ==
    [book_id |-> book_id, chunk_id |-> <<book_id, k>>, position |-> k]

\* variant: an unknown book id falls back to a book of the index
get_book_index_or_any(index, book_id) ==
    IF book_id \in DOMAIN index
    THEN [some |-> TRUE, value |-> index[book_id]]
    ELSE IF DOMAIN index # {}
    THEN [some |-> TRUE, value |-> index[CHOOSE b \in DOMAIN index : TRUE]]
    ELSE [some |-> FALSE, value |-> <<>>]

\* index.py 89-91: self.index.get(book_id, None)
get_book_index(index, book_id) ==
    IF book_id \in DOMAIN index
    THEN [some |-> TRUE, value |-> index[book_id]]
    ELSE [some |-> FALSE, value |-> <<>>]

\* retrieve.py 25-34: the cosine similarity of every chunk with the query
Similarities(book_index, query) ==
    [k \in 1..Len(book_index.embeddings) |-> book_index.embeddings[k][query]]

RECURSIVE Rankings(_, _)
\* np.argsort(similarities)[::-1]: the indices by falling similarity.  The
\* order of equal similarities is not specified by the sort, so every
\* order of them is possible.
Rankings(similarities, remaining) ==
    IF remaining = {} THEN {<<>>}
    ELSE UNION {{<<k>> \o rest :
                    rest \in Rankings(similarities, remaining \ {k})} :
                k \in {m \in remaining :
                          \A j \in remaining :
                              similarities[m] >= similarities[j]}}

\* chunk = book_index['chunks'][idx].copy(); chunk['similarity'] = ...
WithSimilarity(chunk, similarity) ==
    [f \in DOMAIN chunk \cup {"similarity"} |->
        IF f = "similarity" THEN similarity ELSE chunk[f]]

\* variant: the threshold test is strict
ResultsAboveThreshold(book_index, similarities, top_indices, threshold) ==
    LET kept == SelectSeq(top_indices,
                          LAMBDA idx : similarities[idx] > threshold)
    IN  [k \in 1..Len(kept) |->
            WithSimilarity(book_index.chunks[kept[k]], similarities[kept[k]])]

\* retrieve.py 39-46
Results(book_index, similarities, top_indices, threshold) ==
    LET kept == SelectSeq(top_indices,
                          LAMBDA idx : similarities[idx] >= threshold)
    IN  [k \in 1..Len(kept) |->
            WithSimilarity(book_index.chunks[kept[k]], similarities[kept[k]])]

\* retrieve.py 14-46: the results retrieve can return
retrieve(index, cfg, query, book_id) ==
    LET book_index == get_book_index(index, book_id)
    IN  IF ~book_index.some THEN {<<>>}
        ELSE LET similarities == Similarities(book_index.value, query)
             IN  {Results(book_index.value, similarities,
                          Prefix(order, cfg.retrieval.top_k),
                          cfg.retrieval.similarity_threshold) :
                     order \in Rankings(similarities, DOMAIN similarities)}

\* an evidence_map in which no claim has an entry yet
EmptyEvidenceMap ==
    [c \in {} |-> <<>>]

\* evidence_map[claim] = ...
SetEvidence(map, claim, result) ==
    [c \in DOMAIN map \cup {claim} |-> IF c = claim THEN result ELSE map[c]]

\* an index without books
EmptyIndex ==
    [b \in {} |-> <<>>]

\* the similarity that a chunk at a position has in an evidence sequence,
\* 0.0 when it is not part of it
SimilarityIn(evidence_seq, position) ==
    IF \E k \in DOMAIN evidence_seq : evidence_seq[k].position = position
    THEN evidence_seq[CHOOSE k \in DOMAIN evidence_seq :
                          evidence_seq[k].position = position].similarity
    ELSE 0

\* the index of "book" from which retrieval gives the evidence of map: the
\* chunks at positions 0..MaxEvidence, each as similar to a claim as the
\* evidence of the claim says
IndexFor(map) ==
    [b \in {"book"} |->
        [chunks     |-> [p \in 1..(MaxEvidence + 1) |-> IndexChunk("book", p - 1)],
         embeddings |-> [p \in 1..(MaxEvidence + 1) |->
                            [q \in DOMAIN map |-> SimilarityIn(map[q], p - 1)]]]]

(***************************************************************************)
(* State                                                                   *)
(***************************************************************************)
VARIABLES
    config,               \* the configuration dict (config.yaml)
    pc,                   \* position in run_inference.main / deliberate_on_backstory
    claims,               \* debate.py: claims
    evidence_map,         \* debate.py: evidence_map
    i,                    \* debate.py: 1-based index of the claim in the loop
    prosecutor_judgment,  \* debate.py: prosecutor_judgment
    defense_judgment,     \* debate.py: defense_judgment
    final_judgment,       \* debate.py: final_judgment
    deliberations,        \* debate.py: deliberations
    llm_calls,            \* task types of the generate() calls of the run
    response,             \* what the latest generate() call returned
    classification,       \* scorer.py: classification
    score_result,         \* run_inference.py: (pred_label, rationale)
    backstory,            \* debate.py: backstory (the content cell of the row)
    book_id,              \* debate.py: book_id
    index,                \* index.py: NovelIndexer.index
    error,                \* str(e) of the exception that is being raised
    val_df,               \* run_inference.py: the rows of val_df
    idx,                  \* run_inference.py: 1-based position of the row
    results,              \* run_inference.py: results
    attempt,              \* groq_client.py, ollama_client.py: attempt
    transport             \* what each request of the generate() call did

vars ==
    <<config, pc, claims, evidence_map, i, prosecutor_judgment,
      defense_judgment, final_judgment, deliberations, llm_calls, response,
      classification, score_result, backstory, book_id, index, error, val_df,
      idx, results, attempt, transport>>

\* a local that has not been assigned yet
Unset ==
    [verdict |-> "UNSET"]

NoResult ==
    [label |-> -1]

(***************************************************************************)
(* reasoning/debate.py  the loop of deliberate_on_backstory                *)
(***************************************************************************)
\* an agent answered with r: its calls were made, and returned is the response
\* of the last of them
AgentAnswered(r, returned) ==
    /\ llm_calls' = llm_calls \o r.calls
    /\ response' = IF r.calls # <<>> THEN returned ELSE response

ProsecutorAnswered(r, returned) ==
    /\ prosecutor_judgment' = r.judgment
    /\ AgentAnswered(r, returned)

ProsecutorStep(outputs) ==
    /\ pc = "prosecutor"
    /\ \E returned \in outputs :
          ProsecutorAnswered(
              prosecutor_analyze_claim(claims[i], evidence_map[claims[i]],
                                       returned),
              returned)
    /\ pc' = "defense"
    /\ UNCHANGED <<config, claims, evidence_map, i, defense_judgment,
                   final_judgment, deliberations, classification, score_result>>
    /\ UNCHANGED <<backstory, book_id, index, error, val_df, idx, results,
                   attempt, transport>>

DefenseAnswered(r, returned) ==
    /\ defense_judgment' = r.judgment
    /\ AgentAnswered(r, returned)

DefenseStep(outputs) ==
    /\ pc = "defense"
    /\ \E returned \in outputs :
          DefenseAnswered(
              defense_analyze_claim(claims[i], evidence_map[claims[i]],
                                    returned),
              returned)
    /\ pc' = "judge"
    /\ UNCHANGED <<config, claims, evidence_map, i, prosecutor_judgment,
                   final_judgment, deliberations, classification, score_result>>
    /\ UNCHANGED <<backstory, book_id, index, error, val_df, idx, results,
                   attempt, transport>>

JudgeAnswered(r, returned) ==
    /\ final_judgment' = r.judgment
    /\ AgentAnswered(r, returned)

JudgeStep(outputs) ==
    /\ pc = "judge"
    /\ \E returned \in outputs :
          JudgeAnswered(
              deliberate(claims[i], prosecutor_judgment, defense_judgment,
                         returned),
              returned)
    /\ pc' = "append"
    /\ UNCHANGED <<config, claims, evidence_map, i, prosecutor_judgment,
                   defense_judgment, deliberations, classification, score_result>>
    /\ UNCHANGED <<backstory, book_id, index, error, val_df, idx, results,
                   attempt, transport>>

\* variant: a claim whose final verdict is INSUFFICIENT is left out
AppendDeliberationSkipsInsufficient ==
    /\ pc = "append"
    /\ deliberations' =
          IF final_judgment.verdict = "INSUFFICIENT" THEN deliberations
          ELSE Append(deliberations,
                      [claim      |-> claims[i],
                       prosecutor |-> prosecutor_judgment,
                       defense    |-> defense_judgment,
                       final      |-> final_judgment])
    /\ i' = i + 1
    /\ pc' = IF i + 1 <= Len(claims) THEN "prosecutor" ELSE "score"
    /\ UNCHANGED <<config, claims, evidence_map, prosecutor_judgment,
                   defense_judgment, final_judgment, llm_calls, response,
                   classification, score_result>>
    /\ UNCHANGED <<backstory, book_id, index, error, val_df, idx, results,
                   attempt, transport>>

\* variant: the result is keyed by the claim text like the evidence map, so
\* a text that already has a deliberation gets no second one
AppendDeliberationOncePerText ==
    /\ pc = "append"
    /\ deliberations' =
          IF \E k \in DOMAIN deliberations : deliberations[k].claim = claims[i]
          THEN deliberations
          ELSE Append(deliberations,
                      [claim      |-> claims[i],
                       prosecutor |-> prosecutor_judgment,
                       defense    |-> defense_judgment,
                       final      |-> final_judgment])
    /\ i' = i + 1
    /\ pc' = IF i + 1 <= Len(claims) THEN "prosecutor" ELSE "score"
    /\ UNCHANGED <<config, claims, evidence_map, prosecutor_judgment,
                   defense_judgment, final_judgment, llm_calls, response,
                   classification, score_result>>
    /\ UNCHANGED <<backstory, book_id, index, error, val_df, idx, results,
                   attempt, transport>>

\* debate.py 113-118 and the loop head
AppendDeliberation ==
    /\ pc = "append"
    /\ deliberations' = Append(deliberations,
                               [claim      |-> claims[i],
                                prosecutor |-> prosecutor_judgment,
                                defense    |-> defense_judgment,
                                final      |-> final_judgment])
    /\ i' = i + 1
    /\ pc' = IF i + 1 <= Len(claims) THEN "prosecutor" ELSE "score"
    /\ UNCHANGED <<config, claims, evidence_map, prosecutor_judgment,
                   defense_judgment, final_judgment, llm_calls, response,
                   classification, score_result>>
    /\ UNCHANGED <<backstory, book_id, index, error, val_df, idx, results,
                   attempt, transport>>

\* run_inference.py 120: pred_label, rationale = scorer.compute_score(...)
ComputeScore ==
    /\ pc = "score"
    /\ classification' = classify_constraints(deliberations)
    /\ score_result' = compute_score(config.scoring, deliberations)
    /\ pc' = "done"
    /\ UNCHANGED <<config, claims, evidence_map, i, prosecutor_judgment,
                   defense_judgment, final_judgment, deliberations, llm_calls,
                   response>>
    /\ UNCHANGED <<backstory, book_id, index, error, val_df, idx, results,
                   attempt, transport>>

(***************************************************************************)
(* reasoning/debate.py  deliberate_on_backstory up to the loop             *)
(***************************************************************************)
\* debate.py 82: claims = self.extract_claims(backstory), and the entry of
\* retrieve_for_claims (retrieve.py 54)
ExtractClaims(outputs) ==
    /\ pc = "extract_claims"
    /\ \E returned \in outputs :
          LET r == extract_claims(config, backstory, returned)
          IN  /\ response' = returned
              /\ llm_calls' = Append(llm_calls, "claim_extraction")
              /\ claims' = r.value
              /\ error' = r.error
              /\ pc' = IF r.raised THEN "raised" ELSE "retrieve"
    /\ evidence_map' = EmptyEvidenceMap
    /\ i' = 1
    /\ UNCHANGED <<config, prosecutor_judgment, defense_judgment,
                   final_judgment, deliberations, classification,
                   score_result, backstory, book_id, index, val_df, idx,
                   results, attempt, transport>>

\* variant: the similarity is written to the chunk of the index
RetrieveStepInPlace ==
    /\ pc = "retrieve"
    /\ i <= Len(claims)
    /\ \E result \in retrieve(index, config, claims[i], book_id) :
          /\ evidence_map' = SetEvidence(evidence_map, claims[i], result)
          /\ index' =
                IF book_id \in DOMAIN index
                THEN [index EXCEPT ![book_id].chunks =
                         [k \in DOMAIN @ |->
                             IF \E j \in DOMAIN result :
                                    result[j].chunk_id = @[k].chunk_id
                             THEN result[CHOOSE j \in DOMAIN result :
                                     result[j].chunk_id = @[k].chunk_id]
                             ELSE @[k]]]
                ELSE index
    /\ i' = i + 1
    /\ UNCHANGED <<config, pc, claims, prosecutor_judgment, defense_judgment,
                   final_judgment, deliberations, llm_calls, response,
                   classification, score_result, backstory, book_id, error,
                   val_df, idx, results, attempt, transport>>

\* retrieve.py 56-57: evidence_map[claim] = self.retrieve(claim, book_id)
RetrieveStep ==
    /\ pc = "retrieve"
    /\ i <= Len(claims)
    /\ \E result \in retrieve(index, config, claims[i], book_id) :
          evidence_map' = SetEvidence(evidence_map, claims[i], result)
    /\ i' = i + 1
    /\ UNCHANGED <<config, pc, claims, prosecutor_judgment, defense_judgment,
                   final_judgment, deliberations, llm_calls, response,
                   classification, score_result, backstory, book_id, index,
                   error, val_df, idx, results, attempt, transport>>

\* variant: the loop of the debate starts after the first retrieval
StartDebateEarly ==
    /\ pc = "retrieve"
    /\ (i > 1 \/ claims = <<>>)
    /\ deliberations' = <<>>
    /\ i' = 1
    /\ pc' = IF claims = <<>> THEN "score" ELSE "prosecutor"
    /\ UNCHANGED <<config, claims, evidence_map, prosecutor_judgment,
                   defense_judgment, final_judgment, llm_calls, response,
                   classification, score_result, backstory, book_id, index,
                   error, val_df, idx, results, attempt, transport>>

\* retrieve.py 59 and debate.py 87-95: retrieve_for_claims returns,
\* deliberations = [], and the loop over the claims starts
StartDebate ==
    /\ pc = "retrieve"
    /\ i > Len(claims)
    /\ deliberations' = <<>>
    /\ i' = 1
    /\ pc' = IF claims = <<>> THEN "score" ELSE "prosecutor"
    /\ UNCHANGED <<config, claims, evidence_map, prosecutor_judgment,
                   defense_judgment, final_judgment, llm_calls, response,
                   classification, score_result, backstory, book_id, index,
                   error, val_df, idx, results, attempt, transport>>

(***************************************************************************)
(* llm/groq_client.py  GroqClient.generate;                                *)
(* llm/ollama_client.py  OllamaClient.generate                             *)
(* One action is one pass of the retry loop.  transport is the sequence of *)
(* what the requests made so far did.  The call counters, the rate limit   *)
(* and the sleeps between attempts are not part of the state.              *)
(***************************************************************************)
Outcome(kind, text) ==
    [kind |-> kind, text |-> text]

\* ' 1. Tom met Ann in Paris in 1850\n'
RawReply ==
    <<" ">> \o ClaimListReply \o <<"\n">>

\* the texts a request can carry: a reply in white space, and white space
RawTexts ==
    {RawReply, <<" ", "\n">>}

\* a request of GroqClient raises (error, timeout), answers without choices
\* (no_choices), with a message whose content is None (no_content), or with
\* a text
GroqOutcomes ==
    {Outcome(kind, <<>>) : kind \in {"error", "timeout", "no_choices",
                                     "no_content"}}
        \cup {Outcome("text", t) : t \in RawTexts}

\* a request of OllamaClient times out, raises another exception (error),
\* answers with a status other than 200 (status), with a body that is not
\* JSON (bad_json), with JSON that has no key 'response' (no_key), or with
\* a text
OllamaOutcomes ==
    {Outcome(kind, <<>>) : kind \in {"error", "timeout", "status",
                                     "bad_json", "no_key"}}
        \cup {Outcome("text", t) : t \in RawTexts}

\* variant: the exception of the last attempt is raised to the caller
GroqAttemptReraises ==
    /\ pc = "groq_generate"
    /\ attempt < config.llm.max_retries
    /\ \E outcome \in GroqOutcomes :
          /\ transport' = Append(transport, outcome)
          /\ IF outcome.kind = "text"
             THEN /\ response' = Text(Strip(outcome.text))
                  /\ pc' = "generated"
                  /\ UNCHANGED <<attempt, error>>
             ELSE IF outcome.kind = "no_choices"
             THEN /\ response' = None
                  /\ pc' = "generated"
                  /\ UNCHANGED <<attempt, error>>
             ELSE IF attempt < config.llm.max_retries - 1
             THEN /\ attempt' = attempt + 1
                  /\ UNCHANGED <<pc, response, error>>
             ELSE /\ error' = <<"e">>
                  /\ pc' = "raised"
                  /\ UNCHANGED <<attempt, response>>
    /\ UNCHANGED <<config, claims, evidence_map, i, prosecutor_judgment,
                   defense_judgment, final_judgment, deliberations, llm_calls,
                   classification, score_result, backstory, book_id, index,
                   val_df, idx, results>>

\* groq_client.py 66-104: one pass of the loop over range(max_retries)
GroqAttempt ==
    /\ pc = "groq_generate"
    /\ attempt < config.llm.max_retries
    /\ \E outcome \in GroqOutcomes :
          /\ transport' = Append(transport, outcome)
          /\ IF outcome.kind = "text"
             THEN /\ response' = Text(Strip(outcome.text))
                  /\ pc' = "generated"
                  /\ UNCHANGED attempt
             ELSE IF outcome.kind = "no_choices"
             THEN /\ response' = None
                  /\ pc' = "generated"
                  /\ UNCHANGED attempt
             ELSE IF attempt < config.llm.max_retries - 1
             THEN /\ attempt' = attempt + 1
                  /\ UNCHANGED <<pc, response>>
             ELSE /\ response' = None
                  /\ pc' = "generated"
                  /\ UNCHANGED attempt
    /\ UNCHANGED <<config, claims, evidence_map, i, prosecutor_judgment,
                   defense_judgment, final_judgment, deliberations, llm_calls,
                   classification, score_result, backstory, book_id, index,
                   error, val_df, idx, results>>

\* ollama_client.py 112-158: one pass of the loop over
\* range(self.max_retries)
OllamaAttempt ==
    /\ pc = "ollama_generate"
    /\ attempt < config.llm.max_retries
    /\ \E outcome \in OllamaOutcomes :
          /\ transport' = Append(transport, outcome)
          /\ IF outcome.kind = "text"
             THEN /\ response' = Text(Strip(outcome.text))
                  /\ pc' = "generated"
                  /\ UNCHANGED attempt
             ELSE IF outcome.kind = "no_key"
             THEN /\ response' = Text(<<>>)
                  /\ pc' = "generated"
                  /\ UNCHANGED attempt
             ELSE IF outcome.kind = "status"
             THEN /\ response' = None
                  /\ pc' = "generated"
                  /\ UNCHANGED attempt
             ELSE IF attempt < config.llm.max_retries - 1
             THEN /\ attempt' = attempt + 1
                  /\ UNCHANGED <<pc, response>>
             ELSE /\ response' = None
                  /\ pc' = "generated"
                  /\ UNCHANGED attempt
    /\ UNCHANGED <<config, claims, evidence_map, i, prosecutor_judgment,
                   defense_judgment, final_judgment, deliberations, llm_calls,
                   classification, score_result, backstory, book_id, index,
                   error, val_df, idx, results>>

\* groq_client.py 106: the loop ended without a return (max_retries is 0)
GroqExhausted ==
    /\ pc = "groq_generate"
    /\ attempt >= config.llm.max_retries
    /\ response' = None
    /\ pc' = "generated"
    /\ UNCHANGED <<config, claims, evidence_map, i, prosecutor_judgment,
                   defense_judgment, final_judgment, deliberations, llm_calls,
                   classification, score_result, backstory, book_id, index,
                   error, val_df, idx, results, attempt, transport>>

\* ollama_client.py 160: the loop ended without a return
OllamaExhausted ==
    /\ pc = "ollama_generate"
    /\ attempt >= config.llm.max_retries
    /\ response' = None
    /\ pc' = "generated"
    /\ UNCHANGED <<config, claims, evidence_map, i, prosecutor_judgment,
                   defense_judgment, final_judgment, deliberations, llm_calls,
                   classification, score_result, backstory, book_id, index,
                   error, val_df, idx, results, attempt, transport>>

(***************************************************************************)
(* run_inference.py  the batch loop of main                                *)
(***************************************************************************)
LowerMap ==
    Keyed(LowerTable)

\* the Greek capital letter sigma, whose lower case depends on its place
CapitalSigma ==
    "U+03A3"

\* c.lower() of a character on its own: one or two characters
LowerChar(c) ==
    IF c = CapitalSigma THEN <<"U+03C3">>
    ELSE Mapped(LowerMap, c)

\* the characters with a case: those that change under upper() or lower()
\* and the other letters of property Lowercase or Uppercase, without the
\* Case_Ignorable ones
CasedOf(upper, lower, other, ignorable) ==
    (upper.keys \cup lower.keys \cup {CapitalSigma} \cup other) \ ignorable

Cased ==
    CasedOf(UpperMap, LowerMap, CasedOther, CaseIgnorable)

\* the places of s whose character is not Case_Ignorable
Kept(s) ==
    {j \in 1..Len(s) : s[j] \notin CaseIgnorable}

\* place k ends a word: of the places kept, the last one before k holds a
\* cased character and the first one after k, if any, does not
EndsWord(s, k, kept, cased) ==
    /\ \E j \in kept : /\ j < k
                       /\ \A m \in kept : m < k => m <= j
                       /\ s[j] \in cased
    /\ \A j \in kept : (j > k /\ \A m \in kept : m > k => j <= m)
                           => s[j] \notin cased

\* the sigma at place k ends a word: skipping Case_Ignorable characters, a
\* cased character comes before it and none after it
FinalSigma(s, k) ==
    EndsWord(s, k, Kept(s), Cased)

RECURSIVE LowerFrom(_, _)
LowerFrom(s, k) ==
    IF k > Len(s) THEN <<>>
    ELSE (IF s[k] = CapitalSigma /\ FinalSigma(s, k) THEN <<"U+03C2">>
          ELSE LowerChar(s[k]))
             \o LowerFrom(s, k + 1)

\* str.lower()
Lower(s) ==
    LowerFrom(s, 1)

\* 'consistent'
sConsistentLower ==
    <<"c","o","n","s","i","s","t","e","n","t">>

\* "'float' object has no attribute 'strip'", and the same of 'int'
MsgNoStrip(type_name) ==
    <<"'">> \o type_name
        \o <<"'"," ","o","b","j","e","c","t"," ","h","a","s"," ","n","o"," ","a","t","t","r","i","b","u","t","e"," ","'","s","t","r","i","p","'">>

\* run_inference.py 25-27: label_str.strip() raises AttributeError when the
\* label cell is no str
normalize_label(label_str) ==
    IF ~label_str.isstr THEN Raise(MsgNoStrip(TypeName(label_str)))
    ELSE Return(IF Lower(Strip(label_str.text)) = sConsistentLower
                THEN 1 ELSE 0)

\* 'Error during inference: '
MsgErrorDuringInference ==
    <<"E","r","r","o","r"," ","d","u","r","i","n","g"," ","i","n","f","e","r","e","n","c","e",":"," ">>

\* run_inference.py 115: deliberate_on_backstory is entered with fresh
\* locals; pred_label and rationale of main keep the pair that line 120
\* assigned for an earlier row
EnterDeliberation ==
    /\ claims' = <<>>
    /\ evidence_map' = EmptyEvidenceMap
    /\ i' = 1
    /\ prosecutor_judgment' = Unset
    /\ defense_judgment' = Unset
    /\ final_judgment' = Unset
    /\ deliberations' = <<>>
    /\ llm_calls' = <<>>
    /\ response' = None
    /\ classification' = EmptyClassification
    /\ error' = <<>>
    /\ pc' = "extract_claims"
    /\ UNCHANGED score_result

\* run_inference.py 112: normalize_label raises outside the try of line
\* 114, so the exception leaves the loop and main: no record is appended
\* and no later row is read
AbortBatch(raised) ==
    /\ error' = raised.error
    /\ pc' = "aborted"
    /\ UNCHANGED <<claims, evidence_map, i, prosecutor_judgment,
                   defense_judgment, final_judgment, deliberations, llm_calls,
                   response, classification, score_result>>

\* run_inference.py 107-115: the fields of the next row are read, the label
\* is normalised, and the try block is entered
NextRow ==
    /\ pc = "row"
    /\ idx <= Len(val_df)
    /\ backstory' = val_df[idx].content
    /\ book_id' = val_df[idx].book_name
    /\ IF normalize_label(val_df[idx].label).raised
       THEN AbortBatch(normalize_label(val_df[idx].label))
       ELSE EnterDeliberation
    /\ UNCHANGED <<config, index, val_df, idx, results, attempt, transport>>

\* run_inference.py 131-140: the except branch, and the loop head
ExceptResult ==
    /\ pc = "raised"
    /\ results' = Append(results,
                         [id         |-> val_df[idx].id,
                          book_name  |-> val_df[idx].book_name,
                          character  |-> val_df[idx].char,
                          prediction |-> 0,
                          true_label |-> normalize_label(val_df[idx].label).value,
                          rationale  |-> [text |-> MsgErrorDuringInference,
                                          args |-> <<error>>]])
    /\ idx' = idx + 1
    /\ pc' = IF idx + 1 <= Len(val_df) THEN "row" ELSE "finished"
    /\ UNCHANGED <<config, claims, evidence_map, i, prosecutor_judgment,
                   defense_judgment, final_judgment, deliberations, llm_calls,
                   response, classification, score_result, backstory, book_id,
                   index, error, val_df, attempt, transport>>

\* run_inference.py 122-129: results.append(...), and the loop head
AppendResult ==
    /\ pc = "done"
    /\ results' = Append(results,
                         [id         |-> val_df[idx].id,
                          book_name  |-> val_df[idx].book_name,
                          character  |-> val_df[idx].char,
                          prediction |-> score_result.label,
                          true_label |-> normalize_label(val_df[idx].label).value,
                          rationale  |-> score_result.rationale])
    /\ idx' = idx + 1
    /\ pc' = IF idx + 1 <= Len(val_df) THEN "row" ELSE "finished"
    /\ UNCHANGED <<config, claims, evidence_map, i, prosecutor_judgment,
                   defense_judgment, final_judgment, deliberations, llm_calls,
                   response, classification, score_result, backstory, book_id,
                   index, error, val_df, attempt, transport>>

(***************************************************************************)
(* Configurations                                                          *)
(***************************************************************************)
Scoring(hard, soft, support, threshold) ==
    [hard_contradiction_weight |-> hard, soft_contradiction_weight |-> soft,
     support_weight |-> support, insufficient_evidence_threshold |-> threshold]

\* weights 1.0, 0.5, 0.25 and threshold 0.5; top_k 5 and similarity
\* threshold 0.5; five claims; three attempts
DefaultConfig ==
    [scoring   |-> Scoring(WeightScale, 2, 1, 2),
     retrieval |-> [top_k |-> 5, similarity_threshold |-> ConfScale \div 2],
     agents    |-> [max_claims_per_backstory |-> 5],
     llm       |-> [max_retries |-> 3]]

\* hard 1.0 or 2.0, soft 0.25 or 0.5, support 0.25 or 1.0,
\* threshold 0.0, 0.5 or 1.0
ScorerConfigs ==
    {[DefaultConfig EXCEPT !.scoring = Scoring(h, s, p, t)] :
        h \in {WeightScale, 2 * WeightScale}, s \in {1, 2},
        p \in {1, WeightScale}, t \in {0, 2, ThresholdScale}}

\* a client that has made no request
IdleClient ==
    /\ attempt = 0
    /\ transport = <<>>

\* no batch in progress
NoBatch ==
    /\ val_df = <<>>
    /\ idx = 1
    /\ results = <<>>

(***************************************************************************)
(* SpecDebate: the debate of one claim (prosecutor, defense, judge), from  *)
(* the state of deliberate_on_backstory after retrieval.                   *)
(***************************************************************************)
InitDebate ==
    /\ config = [DefaultConfig EXCEPT !.retrieval.top_k = MaxEvidence]
    /\ pc = "prosecutor"
    /\ claims = <<ClaimParis>>
    /\ \E evidence \in EvidenceSets :
          evidence_map = [c \in {ClaimParis} |-> evidence]
    /\ i = 1
    /\ prosecutor_judgment = Unset
    /\ defense_judgment = Unset
    /\ final_judgment = Unset
    /\ deliberations = <<>>
    /\ llm_calls = <<"claim_extraction">>
    /\ response = Text(ClaimListReply)
    /\ classification = EmptyClassification
    /\ score_result = NoResult
    /\ backstory = Str(<<>>)
    /\ book_id = "book"
    /\ index = IndexFor(evidence_map)
    /\ error = <<>>
    /\ NoBatch
    /\ IdleClient

NextDebate ==
    \/ ProsecutorStep(DebateOutputs)
    \/ DefenseStep(DebateOutputs)
    \/ JudgeStep(DebateOutputs)
    \/ AppendDeliberation

SpecDebate ==
    InitDebate /\ [][NextDebate]_vars

(***************************************************************************)
(* SpecScorer: compute_score applied to a list of deliberations            *)
(***************************************************************************)
\* longest list of deliberations given to compute_score
MaxDelibs ==
    10

\* longest list of deliberations taken in every order
MaxMixed ==
    3

\* a judgment as analyze_claim returns it after a well-formed reply
AgentJudgment(verdict, confidence) ==
    [verdict |-> verdict, confidence |-> confidence, reasoning |-> ReasonText,
     evidence_used |-> <<<<"book", 0>>>>]

\* a judgment as analyze_claim returns it without evidence
NoEvidenceJudgment ==
    [verdict |-> "INSUFFICIENT", confidence |-> Zero, reasoning |-> MsgNoEvidence,
     evidence_used |-> <<>>]

\* a judgment as deliberate builds it, or as extract_judgment returns it
JudgeJudgment(verdict, confidence, reasoning) ==
    [verdict |-> verdict, confidence |-> confidence, reasoning |-> reasoning]

Deliberation(prosecutor, defense, final) ==
    [claim |-> ClaimParis, prosecutor |-> prosecutor, defense |-> defense,
     final |-> final]

\* the confidence tenths / 10
Conf(tenths) ==
    Thousandths(100 * tenths)

\* 0.7004, the confidence that 'CONFIDENCE: 70.04%' gives
JustAboveCutoff ==
    Decimal(FALSE, <<>>, <<7, 0, 0, 4>>)

\* the deliberations of five debates: final CONTRADICTORY 0.7004 (hard
\* contradiction rule), CONTRADICTORY 0.7 (arbitration fell back to the
\* prosecutor), CONSISTENT 0.7 (both consistent, 0.6 and 0.8), INSUFFICIENT
\* 0.0 (no evidence), CONSISTENT 0.8 (arbitration answered)
KindSeq ==
    <<Deliberation(AgentJudgment("CONTRADICTORY", JustAboveCutoff),
                   AgentJudgment("CONSISTENT", Conf(8)),
                   JudgeJudgment("CONTRADICTORY", JustAboveCutoff,
                                 MsgHardPrefix \o ReasonText)),
      Deliberation(AgentJudgment("CONTRADICTORY", Conf(7)),
                   AgentJudgment("CONSISTENT", Conf(8)),
                   AgentJudgment("CONTRADICTORY", Conf(7))),
      Deliberation(AgentJudgment("CONSISTENT", Conf(6)),
                   AgentJudgment("CONSISTENT", Conf(8)),
                   JudgeJudgment("CONSISTENT", Conf(7), MsgBothAgree)),
      Deliberation(NoEvidenceJudgment, NoEvidenceJudgment,
                   JudgeJudgment("INSUFFICIENT", Zero, MsgBothInsufficient)),
      Deliberation(AgentJudgment("CONTRADICTORY", Conf(7)),
                   AgentJudgment("CONSISTENT", Conf(8)),
                   JudgeJudgment("CONSISTENT", Conf(8), ReasonText))>>

DeliberationKinds ==
    {KindSeq[k] : k \in DOMAIN KindSeq}

RECURSIVE CountVectors(_, _)
\* the sequences of k naturals whose sum is at most budget
CountVectors(k, budget) ==
    IF k = 0 THEN {<<>>}
    ELSE UNION {{<<n>> \o rest : rest \in CountVectors(k - 1, budget - n)} :
                   n \in 0..budget}

RECURSIVE Runs(_, _, _)
\* counts[k] copies of kinds[k], for k = from .. Len(kinds)
Runs(kinds, counts, from) ==
    IF from > Len(counts) THEN <<>>
    ELSE [j \in 1..counts[from] |-> kinds[from]]
             \o Runs(kinds, counts, from + 1)

\* lists made of runs of equal deliberations, up to MaxDelibs long
RunLists ==
    LET kinds == KindSeq
    IN  {Runs(kinds, counts, 1) : counts \in CountVectors(Len(kinds), MaxDelibs)}

\* every list of at most MaxMixed deliberations
MixedLists ==
    UNION {[1..n -> DeliberationKinds] : n \in 0..MaxMixed}

InitScorer ==
    /\ deliberations \in RunLists \cup MixedLists
    /\ config \in ScorerConfigs
    /\ pc = "score"
    /\ claims = [k \in 1..Len(deliberations) |-> deliberations[k].claim]
    /\ evidence_map = [c \in {} |-> <<>>]
    /\ i = Len(deliberations) + 1
    /\ prosecutor_judgment = Unset
    /\ defense_judgment = Unset
    /\ final_judgment = Unset
    /\ llm_calls = <<>>
    /\ response = None
    /\ classification = EmptyClassification
    /\ score_result = NoResult
    /\ backstory = Str(<<>>)
    /\ book_id = "book"
    /\ index = EmptyIndex
    /\ error = <<>>
    /\ NoBatch
    /\ IdleClient

NextScorer ==
    ComputeScore

SpecScorer ==
    InitScorer /\ [][NextScorer]_vars

(***************************************************************************)
(* SpecParser: BaseAgent.extract_judgment applied to a response            *)
(***************************************************************************)
\* 'VERDICT: CONSISTENT'
LineVerdictConsistent ==
    <<"V","E","R","D","I","C","T",":"," ","C","O","N","S","I","S","T","E","N","T">>

\* 'verdict:  contradictory '
LineVerdictLower ==
    <<"v","e","r","d","i","c","t",":"," "," ","c","o","n","t","r","a","d","i","c","t","o","r","y"," ">>

\* 'verd\u0131ct: contradictory\x0b': upper() turns the dotless i into I and
\* strip() removes the vertical tab
LineVerdictDotless ==
    <<"v","e","r","d","U+0131","c","t",":"," ","c","o","n","t","r","a","d","i","c","t","o","r","y","U+000B">>

\* 'VERDICT: MAYBE'
LineVerdictMaybe ==
    <<"V","E","R","D","I","C","T",":"," ","M","A","Y","B","E">>

\* 'VERDICT: NOT CONSISTENT'
LineVerdictNotConsistent ==
    <<"V","E","R","D","I","C","T",":"," ","N","O","T"," ","C","O","N","S","I","S","T","E","N","T">>

\* 'CONFIDENCE: 0.8'
LineConfidence08 ==
    <<"C","O","N","F","I","D","E","N","C","E",":"," ","0",".","8">>

\* 'confidence: 87%'
LineConfidencePercent ==
    <<"c","o","n","f","i","d","e","n","c","e",":"," ","8","7","%">>

\* 'CONFIDENCE: 33.3\xa0%': strip() removes the no-break space, and the
\* quotient of 33.3 by 100.0 rounds to the float below 0.333
LineConfidenceQuotient ==
    <<"C","O","N","F","I","D","E","N","C","E",":"," ","3","3",".","3","U+00A0","%">>

\* 'CONFIDENCE: 1.5'
LineConfidence1p5 ==
    <<"C","O","N","F","I","D","E","N","C","E",":"," ","1",".","5">>

\* 'CONFIDENCE: 150'
LineConfidence150 ==
    <<"C","O","N","F","I","D","E","N","C","E",":"," ","1","5","0">>

\* 'CONFIDENCE: 1.0000000000000001': float() rounds the literal to 1.0
LineConfidence1 ==
    <<"C","O","N","F","I","D","E","N","C","E",":"," ","1",".","0","0","0","0","0","0","0","0","0","0","0","0","0","0","0","1">>

\* 'CONFIDENCE: -0.5'
LineConfidenceNegative ==
    <<"C","O","N","F","I","D","E","N","C","E",":"," ","-","0",".","5">>

\* 'CONFIDENCE: nan'
LineConfidenceNan ==
    <<"C","O","N","F","I","D","E","N","C","E",":"," ","n","a","n">>

\* 'CONFIDENCE: high'
LineConfidenceHigh ==
    <<"C","O","N","F","I","D","E","N","C","E",":"," ","h","i","g","h">>

\* 'REASONING: dates clash'
LineReasoning ==
    <<"R","E","A","S","O","N","I","N","G",":"," ","d","a","t","e","s"," ","c","l","a","s","h">>

\* 'REASONING:  '
LineReasoningEmpty ==
    <<"R","E","A","S","O","N","I","N","G",":"," "," ">>

\* 'I think it is fine'
LineFreeText ==
    <<"I"," ","t","h","i","n","k"," ","i","t"," ","i","s"," ","f","i","n","e">>

\* the lines a response is made of
LinePool ==
    {LineVerdictConsistent,
     LineVerdictLower,
     LineVerdictDotless,
     LineVerdictMaybe,
     LineVerdictNotConsistent,
     LineConfidence08,
     LineConfidencePercent,
     LineConfidenceQuotient,
     LineConfidence1p5,
     LineConfidence150,
     LineConfidence1,
     LineConfidenceNegative,
     LineConfidenceNan,
     LineConfidenceHigh,
     LineReasoning,
     LineReasoningEmpty,
     LineFreeText}

\* most lines of a response
MaxLines ==
    3

RECURSIVE JoinLines(_)
\* '\n'.join(lines)
JoinLines(lines) ==
    IF lines = <<>> THEN <<>>
    ELSE IF Len(lines) = 1 THEN lines[1]
    ELSE lines[1] \o <<"\n">> \o JoinLines(Tail(lines))

\* the responses of up to MaxLines lines; no line gives ''
ParserTexts ==
    {JoinLines(lines) : lines \in UNION {[1..n -> LinePool] : n \in 0..MaxLines}}

\* what extract_judgment can be given: a text, '' or None
ParserInputs ==
    {Text(t) : t \in ParserTexts} \cup {None}

\* judgment = self.extract_judgment(response)
ExtractJudgment ==
    /\ pc = "extract"
    /\ final_judgment' = extract_judgment(response)
    /\ pc' = "extracted"
    /\ UNCHANGED <<config, claims, evidence_map, i, prosecutor_judgment,
                   defense_judgment, deliberations, llm_calls, response,
                   classification, score_result>>
    /\ UNCHANGED <<backstory, book_id, index, error, val_df, idx, results,
                   attempt, transport>>

InitParser ==
    /\ response \in ParserInputs
    /\ pc = "extract"
    /\ config = DefaultConfig
    /\ claims = <<>>
    /\ evidence_map = [c \in {} |-> <<>>]
    /\ i = 1
    /\ prosecutor_judgment = Unset
    /\ defense_judgment = Unset
    /\ final_judgment = Unset
    /\ deliberations = <<>>
    /\ llm_calls = <<>>
    /\ classification = EmptyClassification
    /\ score_result = NoResult
    /\ backstory = Str(<<>>)
    /\ book_id = "book"
    /\ index = EmptyIndex
    /\ error = <<>>
    /\ NoBatch
    /\ IdleClient

NextParser ==
    ExtractJudgment

SpecParser ==
    InitParser /\ [][NextParser]_vars

(***************************************************************************)
(* SpecRun: deliberate_on_backstory from the state after claim extraction  *)
(* and retrieval, over every claim of the list, followed by compute_score. *)
(***************************************************************************)
\* 'Ann was born in London in 1820'
ClaimLondon ==
    <<"A","n","n"," ","w","a","s"," ","b","o","r","n"," ","i","n"," ","L","o","n","d","o","n"," ","i","n"," ","1","8","2","0">>

ClaimTexts ==
    {ClaimParis, ClaimLondon}

\* longest list of extracted claims
MaxClaims ==
    2

\* the claim lists extract_claims returned, the same text twice included
ClaimLists ==
    UNION {[1..n -> ClaimTexts] : n \in 0..MaxClaims}

\* the numbered list that extract_claims parses into claim_list; no claim
\* comes from a failed call on a backstory without a long sentence
ClaimListReplyOf(claim_list) ==
    IF claim_list = <<>> THEN None
    ELSE Text(JoinLines([k \in 1..Len(claim_list) |->
                            <<DigitChars[k + 1], ".", " ">> \o claim_list[k]]))

\* what generate() returns in a run: a CONTRADICTORY reply at 0.9, a
\* CONSISTENT reply at 0.8, or None
RunOutputs ==
    {Text(Reply(VerdictText["CONTRADICTORY"], <<"0", ".", "9">>, ReasonText)),
     Text(Reply(VerdictText["CONSISTENT"], <<"0", ".", "8">>, ReasonText)),
     None}

InitRun ==
    /\ config = DefaultConfig
    /\ claims \in ClaimLists
    /\ evidence_map \in [{claims[k] : k \in 1..Len(claims)}
                            -> {EvidenceOfLen(0), EvidenceOfLen(1)}]
    /\ pc = IF claims = <<>> THEN "score" ELSE "prosecutor"
    /\ i = 1
    /\ prosecutor_judgment = Unset
    /\ defense_judgment = Unset
    /\ final_judgment = Unset
    /\ deliberations = <<>>
    /\ llm_calls = <<"claim_extraction">>
    /\ response = ClaimListReplyOf(claims)
    /\ classification = EmptyClassification
    /\ score_result = NoResult
    /\ backstory = Str(<<>>)
    /\ book_id = "book"
    /\ index = IndexFor(evidence_map)
    /\ error = <<>>
    /\ NoBatch
    /\ IdleClient

NextRun ==
    \/ ProsecutorStep(RunOutputs)
    \/ DefenseStep(RunOutputs)
    \/ JudgeStep(RunOutputs)
    \/ AppendDeliberation
    \/ ComputeScore

SpecRun ==
    InitRun /\ [][NextRun]_vars

(***************************************************************************)
(* SpecExtract: extract_claims applied to a backstory                      *)
(***************************************************************************)
\* 'Tom met Ann': no period, not longer than 20 characters
StoryShort ==
    <<"T","o","m"," ","m","e","t"," ","A","n","n">>

\* 'Tom met Ann in Paris in 1850': no period, longer than 20 characters
StoryOne ==
    ClaimParis

\* 'Tom met Ann in Paris in 1850. Ann was born in London in 1820. He left.'
StoryTwo ==
    ClaimParis \o <<".", " ">> \o ClaimLondon \o <<".", " ">>
        \o <<"H","e"," ","l","e","f","t",".">>

\* the two long sentences of StoryTwo four times over: eight sentences of
\* more than 20 characters, 248 characters
StoryLong ==
    LET pair == ClaimParis \o <<".", " ">> \o ClaimLondon \o <<".", " ">>
    IN  pair \o pair \o pair \o pair

\* the content cells: five texts, '' included, and an empty cell
Backstories ==
    {Str(StoryShort), Str(StoryOne), Str(StoryTwo), Str(StoryLong),
     Str(<<>>), NaN}

\* most claims a reply lists
MaxListed ==
    6

\* the list of n claims, the two claim texts in turn
ListOf(n) ==
    [k \in 1..n |-> IF k % 2 = 1 THEN ClaimParis ELSE ClaimLondon]

\* 'Here are the claims you asked for'
ReplyNoList ==
    <<"H","e","r","e"," ","a","r","e"," ","t","h","e"," ","c","l","a","i","m","s"," ","y","o","u"," ","a","s","k","e","d"," ","f","o","r">>

\* '1. Tom\n2) He left': candidates of 15 characters or fewer
ReplyShortItems ==
    <<"1", ".", " ", "T", "o", "m", "\n", "2", ")", " ">>
        \o <<"H","e"," ","l","e","f","t">>

\* '- Tom met Ann in Paris in 1850 \n • Ann was born in London in 1820\n
\*  ²nd of all he left Paris for good': a dash, a bullet behind a blank
\* and a digit that is not ASCII
ReplyBullets ==
    <<"-", " ">> \o ClaimParis \o <<" ", "\n">>
        \o <<" ", Bullet, " ">> \o ClaimLondon \o <<"\n">>
        \o <<SuperscriptTwo, "n", "d", " ">>
        \o <<"o","f"," ","a","l","l"," ","h","e"," ","l","e","f","t"," ","P","a","r","i","s"," ","f","o","r"," ","g","o","o","d">>

\* 'Here are the claims you asked for\n1. Ann met Tom now\n
\*  2. Ann met Tom now.\n3. Ann met Tom no': a line that is no list item,
\* and items of 15, 16 and 14 characters
ReplyBoundary ==
    ReplyNoList \o <<"\n">>
        \o <<"1","."," ","A","n","n"," ","m","e","t"," ","T","o","m"," ","n","o","w">> \o <<"\n">>
        \o <<"2","."," ","A","n","n"," ","m","e","t"," ","T","o","m"," ","n","o","w",".">> \o <<"\n">>
        \o <<"3","."," ","A","n","n"," ","m","e","t"," ","T","o","m"," ","n","o">>

\* '\u00b3 Ann was born in London in 1820\x1f\n1.\xa0Tom met Ann in
\*  Paris in 1850': a digit that is not ASCII and that lstrip leaves in
\* place, and a unit separator and a no-break space that strip() removes
ReplyOtherScripts ==
    <<"U+00B3"," ">> \o ClaimLondon \o <<"U+001F", "\n">>
        \o <<"1",".","U+00A0">> \o ClaimParis

\* what generate() returns to extract_claims: None, or the reply without
\* surrounding whitespace (groq_client.py 90, ollama_client.py 140): '',
\* numbered lists of 1, 2 and MaxListed claims, a bulleted list, text
\* without claims, and lists with items of about 15 characters
ExtractOutputs ==
    {None, Text(<<>>), Text(ReplyNoList), Text(ReplyShortItems),
     Text(ReplyBullets), Text(ReplyBoundary), Text(ReplyOtherScripts)}
        \cup {ClaimListReplyOf(ListOf(n)) : n \in {1, 2, MaxListed}}

\* largest max_claims_per_backstory
MaxClaimsConfig ==
    7

ExtractConfigs ==
    {[DefaultConfig EXCEPT !.agents.max_claims_per_backstory = m] :
        m \in 1..MaxClaimsConfig}

\* the locals of deliberate_on_backstory and of main before a run
FreshRun ==
    /\ claims = <<>>
    /\ evidence_map = EmptyEvidenceMap
    /\ i = 1
    /\ prosecutor_judgment = Unset
    /\ defense_judgment = Unset
    /\ final_judgment = Unset
    /\ deliberations = <<>>
    /\ llm_calls = <<>>
    /\ response = None
    /\ classification = EmptyClassification
    /\ score_result = NoResult
    /\ error = <<>>

InitExtract ==
    /\ config \in ExtractConfigs
    /\ backstory \in Backstories
    /\ book_id = "book"
    /\ index = EmptyIndex
    /\ pc = "extract_claims"
    /\ FreshRun
    /\ NoBatch
    /\ IdleClient

NextExtract ==
    ExtractClaims(ExtractOutputs)

SpecExtract ==
    InitExtract /\ [][NextExtract]_vars

(***************************************************************************)
(* SpecRetrieve: retrieve_for_claims over a list of claims                 *)
(***************************************************************************)
\* most chunks of a book
MaxChunks ==
    3

\* similarities 0.3, 0.6 and 0.9
SimValues ==
    {(3 * ConfScale) \div 10, (6 * ConfScale) \div 10, (9 * ConfScale) \div 10}

\* the index entry of a book whose chunk k is as similar to ClaimParis as
\* sims[k] says, and to every other claim text as sims says in reverse
BookIndex(book, sims) ==
    [chunks     |-> [k \in 1..Len(sims) |-> IndexChunk(book, k - 1)],
     embeddings |-> [k \in 1..Len(sims) |->
                        [q \in ClaimTexts |->
                            IF q = ClaimParis THEN sims[k]
                            ELSE sims[Len(sims) + 1 - k]]]]

\* the indexes of one book with 1..MaxChunks chunks
Indexes ==
    {[b \in {"book"} |-> BookIndex("book", sims)] :
        sims \in UNION {[1..n -> SimValues] : n \in 1..MaxChunks}}

\* top_k 1 or 2, threshold 0.6
RetrieveConfigs ==
    {[DefaultConfig EXCEPT !.retrieval =
         [top_k |-> k, similarity_threshold |-> (6 * ConfScale) \div 10]] :
        k \in {1, 2}}

InitRetrieve ==
    /\ config \in RetrieveConfigs
    /\ index \in Indexes
    /\ book_id \in {"book", "other"}
    /\ backstory = Str(<<>>)
    /\ claims \in ClaimLists
    /\ evidence_map = EmptyEvidenceMap
    /\ pc = "retrieve"
    /\ i = 1
    /\ prosecutor_judgment = Unset
    /\ defense_judgment = Unset
    /\ final_judgment = Unset
    /\ deliberations = <<>>
    /\ llm_calls = <<"claim_extraction">>
    /\ response = ClaimListReplyOf(claims)
    /\ classification = EmptyClassification
    /\ score_result = NoResult
    /\ error = <<>>
    /\ NoBatch
    /\ IdleClient

NextRetrieve ==
    \/ RetrieveStep
    \/ StartDebate

SpecRetrieve ==
    InitRetrieve /\ [][NextRetrieve]_vars

(***************************************************************************)
(* SpecClient: one call of generate, GroqClient or OllamaClient            *)
(***************************************************************************)
\* largest max_retries
MaxRetries ==
    3

ClientConfigs ==
    {[DefaultConfig EXCEPT !.llm.max_retries = m] : m \in 0..MaxRetries}

InitClient ==
    /\ config \in ClientConfigs
    /\ pc \in {"groq_generate", "ollama_generate"}
    /\ attempt = 0
    /\ transport = <<>>
    /\ backstory = Str(<<>>)
    /\ book_id = "book"
    /\ index = EmptyIndex
    /\ FreshRun
    /\ NoBatch

NextClient ==
    \/ GroqAttempt
    \/ OllamaAttempt
    \/ GroqExhausted
    \/ OllamaExhausted

SpecClient ==
    InitClient /\ [][NextClient]_vars

(***************************************************************************)
(* SpecPipeline: one run of deliberate_on_backstory from its first line,   *)
(* followed by compute_score                                               *)
(***************************************************************************)
\* the claims that extract_claims can return
QueriesOf(cfg, backstories, outputs) ==
    UNION {LET r == extract_claims(cfg, b, o)
           IN  {r.value[k] : k \in DOMAIN r.value} :
              b \in backstories, o \in outputs}

\* the index of "book" with a chunk for each entry of sims, chunk k as
\* similar to every query as sims[k] says
UniformIndex(queries, sims) ==
    [b \in {"book"} |->
        [chunks     |-> [k \in 1..Len(sims) |-> IndexChunk("book", k - 1)],
         embeddings |-> [k \in 1..Len(sims) |-> [q \in queries |-> sims[k]]]]]

\* similarities 0.6, 0.9, 0.3: rank order is not position order
RankedSims ==
    <<(6 * ConfScale) \div 10, (9 * ConfScale) \div 10, (3 * ConfScale) \div 10>>

\* similarities 0.3, 0.3: no chunk reaches the threshold
LowSims ==
    <<(3 * ConfScale) \div 10, (3 * ConfScale) \div 10>>

PipelineBackstories ==
    {Str(StoryTwo), Str(StoryShort), NaN}

\* what generate() returns to extract_claims in a run: a list of the two
\* claim texts, a list with the same text twice, or None
PipelineExtractOutputs ==
    {ClaimListReplyOf(<<ClaimParis, ClaimLondon>>),
     ClaimListReplyOf(<<ClaimParis, ClaimParis>>),
     None}

PipelineQueries ==
    QueriesOf(DefaultConfig, PipelineBackstories, PipelineExtractOutputs)

PipelineIndexes ==
    {UniformIndex(PipelineQueries, RankedSims),
     UniformIndex(PipelineQueries, LowSims)}

InitPipeline ==
    /\ config = DefaultConfig
    /\ backstory \in PipelineBackstories
    /\ book_id \in {"book", "other"}
    /\ index \in PipelineIndexes
    /\ pc = "extract_claims"
    /\ FreshRun
    /\ NoBatch
    /\ IdleClient

NextPipeline ==
    \/ ExtractClaims(PipelineExtractOutputs)
    \/ RetrieveStep
    \/ StartDebate
    \/ ProsecutorStep(RunOutputs)
    \/ DefenseStep(RunOutputs)
    \/ JudgeStep(RunOutputs)
    \/ AppendDeliberation
    \/ ComputeScore

SpecPipeline ==
    InitPipeline /\ [][NextPipeline]_vars

\* the positions of a run in the code
PipelinePositions ==
    {"extract_claims", "retrieve", "prosecutor", "defense", "judge", "append",
     "score", "done", "raised"}

\* The run executes its next statement: unless it has returned or raised,
\* its position in the code or the index of the loop it is in changes.
\* Every step of NextPipeline is such a step, and one is possible at every
\* position but "done" and "raised".
Advance ==
    /\ pc \notin {"done", "raised"}
    /\ \E position \in PipelinePositions, k \in 1..(MaxClaimsOf(config) + 1) :
          /\ pc' = position
          /\ i' = k
          /\ <<position, k>> # <<pc, i>>

\* The run is one thread of synchronous calls: when a call returns, the
\* next statement is executed, so a run that has not ended takes a step.
SpecPipelineFair ==
    SpecPipeline /\ WF_<<pc, i>>(Advance)

(***************************************************************************)
(* SpecOutage: a run and its scoring while every generate() call returns   *)
(* None                                                                    *)
(***************************************************************************)
\* what generate() returns when the generator is down
OutageOutputs ==
    {None}

\* the content cells: no sentence of more than 20 characters, one, two and
\* eight of them, and an empty cell
OutageBackstories ==
    {Str(StoryShort), Str(StoryOne), Str(StoryTwo), Str(StoryLong), NaN}

\* hard 1.0, soft 0.5, support 0.25 or 1.0, threshold 0.0, 0.5, 0.75 or 1.0
OutageConfigs ==
    {[DefaultConfig EXCEPT !.scoring = Scoring(WeightScale, 2, p, t)] :
        p \in {1, WeightScale}, t \in {0, 2, 3, ThresholdScale}}

OutageQueries ==
    QueriesOf(DefaultConfig, OutageBackstories, OutageOutputs)

InitOutage ==
    /\ config \in OutageConfigs
    /\ backstory \in OutageBackstories
    /\ book_id \in {"book", "other"}
    /\ index \in {UniformIndex(OutageQueries, RankedSims),
                  UniformIndex(OutageQueries, LowSims)}
    /\ pc = "extract_claims"
    /\ FreshRun
    /\ NoBatch
    /\ IdleClient

NextOutage ==
    \/ ExtractClaims(OutageOutputs)
    \/ RetrieveStep
    \/ StartDebate
    \/ ProsecutorStep(OutageOutputs)
    \/ DefenseStep(OutageOutputs)
    \/ JudgeStep(OutageOutputs)
    \/ AppendDeliberation
    \/ ComputeScore

SpecOutage ==
    InitOutage /\ [][NextOutage]_vars

(***************************************************************************)
(* SpecBatch: the batch loop of run_inference.main over the rows of val_df *)
(***************************************************************************)
Row(id, book_name, char, content, label) ==
    [id |-> id, book_name |-> book_name, char |-> char, content |-> content,
     label |-> label]

\* a row of a known book, a row with an empty content cell, and a row of a
\* book that is not indexed, with the labels 'consistent', 'contradict' and
\* ' Consistent '; two rows of a file whose label column holds the
\* integers 0 and 1
Rows ==
    {Row(1, "book", <<"T","o","m">>, Str(StoryOne), Str(sConsistentLower)),
     Row(2, "book", <<"A","n","n">>, NaN,
         Str(<<"c","o","n","t","r","a","d","i","c","t">>)),
     Row(3, "other", <<"T","o","m">>, Str(StoryShort),
         Str(<<" ","C","o","n","s","i","s","t","e","n","t"," ">>)),
     Row(4, "book", <<"A","n","n">>, Str(StoryShort), Integer(0)),
     Row(5, "book", <<"T","o","m">>, Str(StoryOne), Integer(1))}

\* run_inference.py 56-64: the test split of train_test_split has at least
\* one row, the stratified split lets no empty label cell through, and
\* read_csv gives a label column one dtype: integers in every row or in
\* none
Frames(rows, n) ==
    {frame \in [1..n -> rows] :
        /\ n >= 1
        /\ \A k \in 1..n : frame[k].label # NaN
        /\ \/ \A k \in 1..n : "int" \in DOMAIN frame[k].label
           \/ \A k \in 1..n : "int" \notin DOMAIN frame[k].label}

\* most rows of val_df
MaxRows ==
    2

BatchExtractOutputs ==
    {ClaimListReplyOf(<<ClaimParis>>), None}

\* what generate() returns to the agents in a batch: a CONTRADICTORY reply
\* at 0.9, or None
BatchOutputs ==
    {Text(Reply(VerdictText["CONTRADICTORY"], <<"0", ".", "9">>, ReasonText)),
     None}

BatchQueries ==
    QueriesOf(DefaultConfig, {r.content : r \in Rows}, BatchExtractOutputs)

InitBatch ==
    /\ config = DefaultConfig
    /\ index = UniformIndex(BatchQueries, RankedSims)
    /\ val_df \in UNION {Frames(Rows, n) : n \in 1..MaxRows}
    /\ idx = 1
    /\ results = <<>>
    /\ pc = "row"
    /\ backstory = Str(<<>>)
    /\ book_id = "book"
    /\ FreshRun
    /\ IdleClient

NextBatch ==
    \/ NextRow
    \/ ExtractClaims(BatchExtractOutputs)
    \/ RetrieveStep
    \/ StartDebate
    \/ ProsecutorStep(BatchOutputs)
    \/ DefenseStep(BatchOutputs)
    \/ JudgeStep(BatchOutputs)
    \/ AppendDeliberation
    \/ ComputeScore
    \/ AppendResult
    \/ ExceptResult

SpecBatch ==
    InitBatch /\ [][NextBatch]_vars

(***************************************************************************)
(* Properties of JudgeAgent.deliberate (SpecDebate)                        *)
(***************************************************************************)
\* the step in which JudgeAgent.deliberate runs and returns
JudgeReturns ==
    pc = "judge" /\ pc' = "append"

\* the judge has returned for the current claim
JudgeReturned ==
    pc = "append"

ProsecutorStrong ==
    /\ prosecutor_judgment.verdict = "CONTRADICTORY"
    /\ Less(HardCutoff, prosecutor_judgment.confidence)

NoDeterministicRule ==
    /\ ~(/\ prosecutor_judgment.verdict = "INSUFFICIENT"
         /\ defense_judgment.verdict = "INSUFFICIENT")
    /\ ~ProsecutorStrong
    /\ ~(/\ prosecutor_judgment.verdict = "CONSISTENT"
         /\ defense_judgment.verdict = "CONSISTENT")

\* C1: whenever the prosecutor is CONTRADICTORY with confidence > 0.7, the
\* judge returns CONTRADICTORY at the prosecutor's confidence, whatever the
\* defense says, and makes no generation call.
C1_HardContradictionOverrides ==
    [][(JudgeReturns /\ ProsecutorStrong)
          => /\ final_judgment'.verdict = "CONTRADICTORY"
             /\ final_judgment'.confidence = prosecutor_judgment.confidence
             /\ llm_calls' = llm_calls]_vars

C1_Witness ==
    /\ JudgeReturned
    /\ ProsecutorStrong
    /\ defense_judgment.verdict = "INSUFFICIENT"
    /\ final_judgment.verdict = "CONTRADICTORY"
    /\ final_judgment.confidence = prosecutor_judgment.confidence
    /\ llm_calls = <<"claim_extraction", "prosecutor", "defense">>

\* C2 as stated: with a prosecutor CONTRADICTORY above 0.7 and a CONSISTENT
\* defense, the final judgment equals the prosecutor's judgment field for
\* field (verdict, confidence and reasoning), without an arbitration call.
C2_FinalEqualsProsecutor ==
    [][(JudgeReturns /\ ProsecutorStrong
            /\ defense_judgment.verdict = "CONSISTENT")
          => /\ final_judgment'.verdict = prosecutor_judgment.verdict
             /\ final_judgment'.confidence = prosecutor_judgment.confidence
             /\ final_judgment'.reasoning = prosecutor_judgment.reasoning
             /\ llm_calls' = llm_calls]_vars

\* C2 as amended: with a prosecutor CONTRADICTORY above 0.7 and a CONSISTENT
\* defense, the final judgment has the prosecutor's verdict and confidence,
\* its reasoning is 'Hard contradiction found: ' followed by the
\* prosecutor's reasoning, it has no evidence_used field, and no
\* arbitration call is made.
C2_FinalIsPrefixedProsecutor ==
    [][(JudgeReturns /\ ProsecutorStrong
            /\ defense_judgment.verdict = "CONSISTENT")
          => /\ final_judgment' =
                   [verdict    |-> prosecutor_judgment.verdict,
                    confidence |-> prosecutor_judgment.confidence,
                    reasoning  |-> MsgHardPrefix \o
                                   prosecutor_judgment.reasoning]
             /\ llm_calls' = llm_calls]_vars

C2_Witness ==
    /\ JudgeReturned
    /\ prosecutor_judgment.verdict = "CONTRADICTORY"
    /\ prosecutor_judgment.confidence = Thousandths(900)
    /\ defense_judgment.verdict = "CONSISTENT"
    /\ defense_judgment.confidence = Thousandths(900)
    /\ final_judgment.reasoning = MsgHardPrefix \o prosecutor_judgment.reasoning
    /\ final_judgment.reasoning # prosecutor_judgment.reasoning

\* C3: when both verdicts are INSUFFICIENT, whatever the confidences, the
\* final judgment is INSUFFICIENT with confidence 0.0 and the reasoning
\* 'Both sides lack sufficient evidence', and no generation call is made.
C3_BothInsufficient ==
    [][(JudgeReturns /\ prosecutor_judgment.verdict = "INSUFFICIENT"
            /\ defense_judgment.verdict = "INSUFFICIENT")
          => /\ final_judgment' = [verdict |-> "INSUFFICIENT", confidence |-> Zero,
                                   reasoning |-> MsgBothInsufficient]
             /\ llm_calls' = llm_calls]_vars

C3_Witness ==
    /\ JudgeReturned
    /\ prosecutor_judgment.verdict = "INSUFFICIENT"
    /\ Less(HardCutoff, prosecutor_judgment.confidence)
    /\ defense_judgment.verdict = "INSUFFICIENT"
    /\ Less(Zero, defense_judgment.confidence)
    /\ final_judgment.verdict = "INSUFFICIENT"
    /\ final_judgment.confidence = Zero
    /\ llm_calls = <<"claim_extraction", "prosecutor", "defense">>

\* C4: when both verdicts are CONSISTENT the final verdict is CONSISTENT,
\* the final confidence is the arithmetic mean of the two confidences (the
\* float nearest to it), and no generation call is made.
C4_BothConsistentMean ==
    [][(JudgeReturns /\ prosecutor_judgment.verdict = "CONSISTENT"
            /\ defense_judgment.verdict = "CONSISTENT")
          => /\ final_judgment'.verdict = "CONSISTENT"
             /\ final_judgment'.confidence
                   = Nearest(Halved(Sum(
                         Exact(prosecutor_judgment.confidence),
                         Exact(defense_judgment.confidence))))
             /\ llm_calls' = llm_calls]_vars

\* prosecutor 0.6, defense 0.8, final 0.7
C4_Witness ==
    /\ JudgeReturned
    /\ prosecutor_judgment.verdict = "CONSISTENT"
    /\ prosecutor_judgment.confidence = Thousandths(600)
    /\ defense_judgment.verdict = "CONSISTENT"
    /\ defense_judgment.confidence = Thousandths(800)
    /\ final_judgment.verdict = "CONSISTENT"
    /\ final_judgment.confidence = Thousandths(700)

\* C5: when none of the three deterministic rules applies, exactly one
\* generation call, of task type 'judge', is made, and when it returns text
\* the final judgment is extract_judgment of that text.
C5_ArbitrationCall ==
    [][(JudgeReturns /\ NoDeterministicRule)
          => /\ llm_calls' = Append(llm_calls, "judge")
             /\ (response'.some /\ response'.text # <<>>)
                   => final_judgment' = extract_judgment(response')]_vars

C5_Witness ==
    /\ JudgeReturned
    /\ NoDeterministicRule
    /\ prosecutor_judgment.verdict = "CONTRADICTORY"
    /\ defense_judgment.verdict = "CONSISTENT"
    /\ llm_calls = <<"claim_extraction", "prosecutor", "defense", "judge">>
    /\ response.some /\ response.text # <<>>
    /\ final_judgment.verdict = "CONSISTENT"
    /\ final_judgment = extract_judgment(response)

\* C6: when the arbitration call returns no text (None or ''), the final
\* judgment is the prosecutor's judgment unchanged, whatever the defense's.
C6_ArbitrationFallback ==
    [][(JudgeReturns /\ NoDeterministicRule
            /\ (~response'.some \/ response'.text = <<>>))
          => final_judgment' = prosecutor_judgment]_vars

C6_Witness ==
    /\ JudgeReturned
    /\ NoDeterministicRule
    /\ llm_calls = <<"claim_extraction", "prosecutor", "defense", "judge">>
    /\ response = None
    /\ prosecutor_judgment.verdict = "CONSISTENT"
    /\ defense_judgment.verdict = "CONTRADICTORY"
    /\ final_judgment = prosecutor_judgment

(***************************************************************************)
(* Properties of BackstoryScorer.compute_score and                         *)
(* ConstraintTracker.classify_constraints (SpecScorer)                     *)
(***************************************************************************)
Scored ==
    pc = "done"

\* coverage < 1 - insufficient_evidence_threshold, on the counts
LowCoverage ==
    LET total == classification.hard_contradictions
                    + classification.soft_contradictions
                    + classification.consistent_claims
                    + classification.insufficient_evidence
        sufficient == total - classification.insufficient_evidence
        threshold == config.scoring.insufficient_evidence_threshold
    IN  IF total = 0 THEN 0 < ThresholdScale - threshold
        ELSE sufficient * ThresholdScale < (ThresholdScale - threshold) * total

\* consistent * support - hard * hard_weight - soft * soft_weight >= 0
WeightedNonNegative ==
    classification.consistent_claims * config.scoring.support_weight
        - classification.hard_contradictions
             * config.scoring.hard_contradiction_weight
        - classification.soft_contradictions
             * config.scoring.soft_contradiction_weight >= 0

\* C7: compute_score returns label 0 whenever hard_contradictions > 0,
\* whatever the other counts, the weights and the threshold.
C7_HardOverride ==
    (Scored /\ classification.hard_contradictions > 0)
        => score_result.label = 0

\* hard 1, soft 0, consistent 5, insufficient 0, where the weighted score
\* alone would be positive
C7_Witness ==
    /\ Scored
    /\ classification = [hard_contradictions |-> 1, soft_contradictions |-> 0,
                         consistent_claims |-> 5, insufficient_evidence |-> 0]
    /\ WeightedNonNegative
    /\ score_result.label = 0

\* C8: compute_score returns label 0 whenever there is no hard contradiction
\* and coverage < 1 - insufficient_evidence_threshold.
C8_LowCoverageOverride ==
    (Scored /\ classification.hard_contradictions = 0 /\ LowCoverage)
        => score_result.label = 0

\* ten insufficient claims and nothing else, threshold 0.5
C8_Witness ==
    /\ Scored
    /\ classification = [hard_contradictions |-> 0, soft_contradictions |-> 0,
                         consistent_claims |-> 0, insufficient_evidence |-> 10]
    /\ 2 * config.scoring.insufficient_evidence_threshold = ThresholdScale
    /\ score_result.label = 0

\* C9: the three rules are applied in order and the first that matches
\* decides: the hard override, then the coverage override, and only
\* otherwise the weighted rule, whose label is 1 iff the weighted score is
\* >= 0.
C9_RuleOrder ==
    Scored =>
        IF classification.hard_contradictions > 0
        THEN /\ score_result.label = 0
             /\ score_result.rationale.text
                   = "CONTRADICTORY: Found {} hard contradiction(s)"
        ELSE IF LowCoverage
        THEN /\ score_result.label = 0
             /\ score_result.rationale.text
                   = "CONTRADICTORY (conservative): Only {} of claims"
        ELSE /\ score_result.label = (IF WeightedNonNegative THEN 1 ELSE 0)
             /\ score_result.rationale.text
                   \in {"CONSISTENT: {} claims supported, {} minor conflicts",
                        "CONTRADICTORY: {} contradictions outweigh {}"}

\* the weighted rule decides, and decides 0
C9_Witness ==
    /\ Scored
    /\ classification.hard_contradictions = 0
    /\ ~LowCoverage
    /\ classification.consistent_claims > 0
    /\ classification.insufficient_evidence > 0
    /\ ~WeightedNonNegative
    /\ score_result.label = 0

\* C10: the four counts of classify_constraints are non-negative integers
\* whose sum is the number of deliberations.
C10_CountsSumToLength ==
    Scored =>
        /\ classification.hard_contradictions \in Nat
        /\ classification.soft_contradictions \in Nat
        /\ classification.consistent_claims \in Nat
        /\ classification.insufficient_evidence \in Nat
        /\ classification.hard_contradictions
              + classification.soft_contradictions
              + classification.consistent_claims
              + classification.insufficient_evidence = Len(deliberations)

C10_Witness ==
    /\ Scored
    /\ classification.hard_contradictions > 0
    /\ classification.soft_contradictions > 0
    /\ classification.consistent_claims > 0
    /\ classification.insufficient_evidence > 0
    /\ Len(deliberations) > 4

\* number of deliberations whose final judgment satisfies Test
FinalCount(Test(_)) ==
    Cardinality({k \in 1..Len(deliberations) : Test(deliberations[k].final)})

HardFinal(final) ==
    final.verdict = "CONTRADICTORY" /\ Less(HardCutoff, final.confidence)

SoftFinal(final) ==
    final.verdict = "CONTRADICTORY" /\ ~Less(HardCutoff, final.confidence)

ConsistentFinal(final) ==
    final.verdict = "CONSISTENT"

OtherFinal(final) ==
    final.verdict \notin {"CONTRADICTORY", "CONSISTENT"}

\* C11: each deliberation is counted by its final judgment alone:
\* CONTRADICTORY above 0.7 as hard, CONTRADICTORY at or below 0.7 (0.7
\* included) as soft, CONSISTENT as consistent, anything else as
\* insufficient; the prosecutor's and defense's judgments play no part.
C11_CountsByFinalOnly ==
    Scored =>
        classification =
            [hard_contradictions   |-> FinalCount(HardFinal),
             soft_contradictions   |-> FinalCount(SoftFinal),
             consistent_claims     |-> FinalCount(ConsistentFinal),
             insufficient_evidence |-> FinalCount(OtherFinal)]

\* a final CONTRADICTORY at exactly 0.7 counted as soft, next to a final
\* CONSISTENT whose prosecutor was CONTRADICTORY and a final CONTRADICTORY
\* whose defense was CONSISTENT
C11_Witness ==
    /\ Scored
    /\ Len(deliberations) = 3
    /\ \E k \in 1..3 : /\ deliberations[k].final.verdict = "CONTRADICTORY"
                       /\ deliberations[k].final.confidence = HardCutoff
    /\ \E k \in 1..3 : /\ deliberations[k].final.verdict = "CONSISTENT"
                       /\ deliberations[k].prosecutor.verdict = "CONTRADICTORY"
    /\ \E k \in 1..3 : /\ HardFinal(deliberations[k].final)
                       /\ deliberations[k].defense.verdict = "CONSISTENT"
    /\ classification = [hard_contradictions |-> 1, soft_contradictions |-> 1,
                         consistent_claims |-> 1, insufficient_evidence |-> 0]

\* C12: has_critical_violations of the classification is true iff at least
\* one deliberation has final verdict CONTRADICTORY with confidence > 0.7.
C12_CriticalIffHardFinal ==
    Scored =>
        (has_critical_violations(classification)
            <=> \E k \in 1..Len(deliberations) :
                   /\ deliberations[k].final.verdict = "CONTRADICTORY"
                   /\ Less(HardCutoff, deliberations[k].final.confidence))

\* several CONTRADICTORY finals, all at exactly 0.7: no critical violation
C12_Witness ==
    /\ Scored
    /\ Len(deliberations) > 1
    /\ \A k \in 1..Len(deliberations) :
          /\ deliberations[k].final.verdict = "CONTRADICTORY"
          /\ deliberations[k].final.confidence = HardCutoff
    /\ ~has_critical_violations(classification)
    /\ score_result.rationale.text
          # "CONTRADICTORY: Found {} hard contradiction(s)"

\* C13: get_evidence_coverage is (total - insufficient_evidence) / total
\* with total the sum of the four counts, is 0.0 when total is zero (no
\* division by zero), and lies between 0 and 1.
C13_Coverage ==
    Scored =>
        LET coverage == get_evidence_coverage(classification)
            total    == classification.hard_contradictions
                           + classification.soft_contradictions
                           + classification.consistent_claims
                           + classification.insufficient_evidence
        IN  /\ coverage.den > 0
            /\ IF total = 0 THEN coverage.num = 0
               ELSE coverage.num * total
                       = (total - classification.insufficient_evidence)
                            * coverage.den
            /\ 0 <= coverage.num
            /\ coverage.num <= coverage.den

\* the empty list of deliberations: total is zero and the coverage 0.0
\* sends compute_score to the conservative label
C13_Witness ==
    /\ Scored
    /\ deliberations = <<>>
    /\ get_evidence_coverage(classification) = [num |-> 0, den |-> 1]
    /\ score_result.rationale
          = [text |-> "CONTRADICTORY (conservative): Only {} of claims",
             args |-> <<0, 1>>]

(***************************************************************************)
(* Properties of BaseAgent.extract_judgment (SpecParser)                   *)
(***************************************************************************)
Extracted ==
    pc = "extracted"

\* the lines of the response that was parsed
ResponseLines ==
    IF response.some THEN Split(response.text, "\n") ELSE <<>>

\* 0.33299999999999996, the float below 0.333
BelowThird ==
    [neg |-> FALSE, int |-> <<>>,
     frac |-> <<3, 3, 2, 9, 9, 9, 9, 9, 9, 9, 9, 9, 9, 9, 9, 9, 6>>]

\* what the CONFIDENCE lines of the pool are to yield:
\* 0.8, 87% -> 0.87, 33.3% -> 0.33299999999999996, 1.5 -> 0.015,
\* 150 -> 1.5 -> 1.0, 1.0000000000000001 -> 1.0, -0.5 -> 0.0, nan -> 1.0;
\* 'high' does not parse
ConfidenceOfLine(line) ==
    IF line = LineConfidence08 THEN [parsed |-> TRUE, value |-> Thousandths(800)]
    ELSE IF line = LineConfidencePercent
    THEN [parsed |-> TRUE, value |-> Thousandths(870)]
    ELSE IF line = LineConfidenceQuotient
    THEN [parsed |-> TRUE, value |-> BelowThird]
    ELSE IF line = LineConfidence1p5
    THEN [parsed |-> TRUE, value |-> Thousandths(15)]
    ELSE IF line \in {LineConfidence150, LineConfidence1, LineConfidenceNan}
    THEN [parsed |-> TRUE, value |-> One]
    ELSE IF line = LineConfidenceNegative
    THEN [parsed |-> TRUE, value |-> Zero]
    ELSE [parsed |-> FALSE, value |-> Zero]

RECURSIVE LastConfidence(_, _)
\* the value of the last CONFIDENCE line that parses, previous if none does
LastConfidence(lines, previous) ==
    IF lines = <<>> THEN previous
    ELSE LET value == ConfidenceOfLine(Head(lines))
         IN  LastConfidence(Tail(lines),
                            IF value.parsed THEN value ELSE previous)

\* C14: the returned confidence is within [0.0, 1.0]; a CONFIDENCE value
\* above 1.0 (after removal of '%') is divided by 100 and then clamped, so
\* '87%' gives 0.87, '1.5' gives 0.015 and '150' gives 1.0; a value that does
\* not parse leaves the confidence as it was (0.0 at the start).
C14_ConfidenceNormalised ==
    Extracted =>
        LET expected == LastConfidence(ResponseLines,
                                       [parsed |-> TRUE, value |-> Zero])
        IN  /\ ~Less(final_judgment.confidence, Zero)
            /\ ~Less(One, final_judgment.confidence)
            /\ final_judgment.confidence = expected.value

\* '87%' followed by a CONFIDENCE line that does not parse: 0.87 is kept
C14_Witness ==
    /\ Extracted
    /\ response = Text(JoinLines(<<LineConfidencePercent, LineConfidenceHigh>>))
    /\ final_judgment.confidence = Thousandths(870)

\* the VERDICT lines of the pool whose value is not one of the three words
InvalidVerdictLines ==
    {LineVerdictMaybe, LineVerdictNotConsistent}

HasInvalidVerdictLine ==
    \E k \in 1..Len(ResponseLines) : ResponseLines[k] \in InvalidVerdictLines

RECURSIVE LastAcceptedVerdict(_, _)
\* the value of the last VERDICT line that is accepted, previous if none is
LastAcceptedVerdict(lines, previous) ==
    IF lines = <<>> THEN previous
    ELSE LastAcceptedVerdict(Tail(lines),
             IF Head(lines) = LineVerdictConsistent THEN "CONSISTENT"
             ELSE IF Head(lines) \in {LineVerdictLower, LineVerdictDotless}
             THEN "CONTRADICTORY"
             ELSE previous)

\* C15 as stated: a response with a VERDICT line whose value is not exactly
\* CONSISTENT, CONTRADICTORY or INSUFFICIENT gets the verdict INSUFFICIENT.
C15_InvalidVerdictIsInsufficient ==
    (Extracted /\ HasInvalidVerdictLine)
        => final_judgment.verdict = "INSUFFICIENT"

\* C15 as amended: a VERDICT line whose value is not exactly one of the
\* three words leaves the verdict as it was: INSUFFICIENT when no VERDICT
\* line of the response has an accepted value, and otherwise the value of
\* the last accepted VERDICT line.
C15_InvalidVerdictKeepsCurrent ==
    (Extracted /\ HasInvalidVerdictLine)
        => /\ final_judgment.verdict
                 = LastAcceptedVerdict(ResponseLines, "INSUFFICIENT")
           /\ (\A k \in 1..Len(ResponseLines) :
                    ResponseLines[k] \notin {LineVerdictConsistent,
                                             LineVerdictLower,
                                             LineVerdictDotless})
                 => final_judgment.verdict = "INSUFFICIENT"

\* 'VERDICT: NOT CONSISTENT' with a confidence and a reasoning line
C15_Witness ==
    /\ Extracted
    /\ response = Text(JoinLines(<<LineVerdictNotConsistent, LineConfidence08,
                                   LineReasoning>>))
    /\ final_judgment.verdict = "INSUFFICIENT"
    /\ final_judgment.confidence = Thousandths(800)

\* C16: extract_judgment returns a judgment for every input, absent, empty
\* or with missing, repeated or malformed lines, and raises nothing; for an
\* absent or empty input the judgment is INSUFFICIENT with confidence 0.0.
C16_ParserTotal ==
    Extracted =>
        /\ DOMAIN final_judgment = {"verdict", "confidence", "reasoning"}
        /\ final_judgment.verdict
              \in {"CONSISTENT", "CONTRADICTORY", "INSUFFICIENT"}
        /\ ~Less(final_judgment.confidence, Zero)
        /\ ~Less(One, final_judgment.confidence)
        /\ final_judgment.reasoning \in Seq(STRING)
        /\ (~response.some \/ response.text = <<>>)
              => /\ final_judgment.verdict = "INSUFFICIENT"
                 /\ final_judgment.confidence = Zero

\* a CONFIDENCE line that does not parse, twice, and an unknown verdict
C16_Witness ==
    /\ Extracted
    /\ response = Text(JoinLines(<<LineConfidenceHigh, LineConfidenceHigh,
                                   LineVerdictMaybe>>))
    /\ final_judgment = [verdict |-> "INSUFFICIENT", confidence |-> Zero,
                         reasoning |-> response.text]

(***************************************************************************)
(* Properties of ProsecutorAgent.analyze_claim and                         *)
(* DefenseAgent.analyze_claim (SpecDebate)                                 *)
(***************************************************************************)
\* the step in which the prosecutor or the defense runs and returns
AgentReturns ==
    \/ pc = "prosecutor" /\ pc' = "defense"
    \/ pc = "defense" /\ pc' = "judge"

\* the judgment that agent returns in this step
ReturnedJudgment ==
    IF pc = "prosecutor" THEN prosecutor_judgment' ELSE defense_judgment'

\* the agent's step makes a generation call, which returns response'
AgentCalls ==
    /\ AgentReturns
    /\ llm_calls' = Append(llm_calls,
                           IF pc = "prosecutor" THEN "prosecutor" ELSE "defense")

\* C17: for a claim with an empty evidence sequence, the prosecutor and the
\* defense each return INSUFFICIENT with confidence 0.0 and empty
\* evidence_used, the final judgment is INSUFFICIENT, and none of the three
\* steps makes a generation call.
C17_EmptyEvidenceNoCall ==
    [][(pc \in {"prosecutor", "defense", "judge"}
            /\ evidence_map[claims[i]] = <<>>)
          => /\ llm_calls' = llm_calls
             /\ AgentReturns
                   => /\ ReturnedJudgment.verdict = "INSUFFICIENT"
                      /\ ReturnedJudgment.confidence = Zero
                      /\ ReturnedJudgment.evidence_used = <<>>
             /\ JudgeReturns
                   => /\ final_judgment'.verdict = "INSUFFICIENT"
                      /\ final_judgment'.confidence = Zero]_vars

C17_Witness ==
    /\ JudgeReturned
    /\ evidence_map[claims[i]] = <<>>
    /\ prosecutor_judgment = [verdict |-> "INSUFFICIENT", confidence |-> Zero,
                              reasoning |-> MsgNoEvidence,
                              evidence_used |-> <<>>]
    /\ defense_judgment = prosecutor_judgment
    /\ final_judgment.verdict = "INSUFFICIENT"
    /\ llm_calls = <<"claim_extraction">>

\* C18: when the generation call of the prosecutor or of the defense
\* returns None or '', the agent returns INSUFFICIENT with confidence 0.0
\* and empty evidence_used (the same judgment in both cases).
C18_FailedCallIsInsufficient ==
    [][(AgentCalls /\ (~response'.some \/ response'.text = <<>>))
          => ReturnedJudgment =
                [verdict |-> "INSUFFICIENT", confidence |-> Zero,
                 reasoning |-> MsgCallFailed, evidence_used |-> <<>>]]_vars

\* the prosecutor's call returned '' for a claim with evidence
C18_Witness ==
    /\ pc = "defense"
    /\ evidence_map[claims[i]] # <<>>
    /\ llm_calls = <<"claim_extraction", "prosecutor">>
    /\ response = [some |-> TRUE, text |-> <<>>]
    /\ prosecutor_judgment.verdict = "INSUFFICIENT"
    /\ prosecutor_judgment.confidence = Zero
    /\ prosecutor_judgment.evidence_used = <<>>

\* C19: after a generation call that returned text, evidence_used is the
\* chunk_ids of the first min(5, n) of the n evidence chunks in rank order:
\* never more than 5, and never an id from outside the claim's evidence.
C19_EvidenceUsedFirstFive ==
    [][(AgentCalls /\ response'.some /\ response'.text # <<>>)
          => LET evidence == evidence_map[claims[i]]
                 used     == ReturnedJudgment.evidence_used
             IN  /\ Len(used) = (IF Len(evidence) < 5 THEN Len(evidence) ELSE 5)
                 /\ Len(used) <= 5
                 /\ \A k \in 1..Len(used) : used[k] = evidence[k].chunk_id
                 /\ \A k \in 1..Len(used) :
                       \E n \in 1..Len(evidence) :
                          used[k] = evidence[n].chunk_id]_vars

\* more than five chunks of evidence, the first five recorded by both agents
C19_Witness ==
    /\ pc = "judge"
    /\ Len(evidence_map[claims[i]]) > 5
    /\ response.some /\ response.text # <<>>
    /\ llm_calls = <<"claim_extraction", "prosecutor", "defense">>
    /\ Len(prosecutor_judgment.evidence_used) = 5
    /\ Len(defense_judgment.evidence_used) = 5
    /\ \A k \in 1..5 :
          /\ prosecutor_judgment.evidence_used[k]
                = evidence_map[claims[i]][k].chunk_id
          /\ defense_judgment.evidence_used[k]
                = prosecutor_judgment.evidence_used[k]

(***************************************************************************)
(* Properties of DebateOrchestrator.deliberate_on_backstory (SpecRun)      *)
(***************************************************************************)
\* the loop over the claims is over and deliberations is returned
RunReturned ==
    pc \in {"score", "done"}

\* C20: deliberate_on_backstory returns one deliberation per extracted
\* claim, the k-th deliberation being about the k-th claim, whatever the
\* generator returned to the prosecutor, the defense and the judge.
C20_OneDeliberationPerClaim ==
    RunReturned =>
        /\ Len(deliberations) = Len(claims)
        /\ \A k \in 1..Len(claims) : deliberations[k].claim = claims[k]

\* two different claims, the first without evidence (no call at all), the
\* second settled by an arbitration call
C20_Witness ==
    /\ pc = "score"
    /\ claims = <<ClaimLondon, ClaimParis>>
    /\ Len(deliberations) = 2
    /\ deliberations[1].claim = ClaimLondon
    /\ deliberations[1].final.verdict = "INSUFFICIENT"
    /\ deliberations[2].claim = ClaimParis
    /\ deliberations[2].final.verdict = "CONSISTENT"
    /\ llm_calls = <<"claim_extraction", "prosecutor", "defense", "judge">>

(***************************************************************************)
(* Properties of DebateOrchestrator.extract_claims (SpecExtract)           *)
(***************************************************************************)
\* extract_claims has returned its list of claims
ClaimsExtracted ==
    pc = "retrieve"

\* C21: extract_claims never returns more than max_claims claims, that is
\* more than 5 or more than max_claims_per_backstory, whether the claims
\* come from the parsed list, from the sentence split or from the first 200
\* characters of the backstory.
C21_AtMostMaxClaims ==
    ClaimsExtracted =>
        /\ Len(claims) <= 5
        /\ Len(claims) <= config.agents.max_claims_per_backstory

\* a reply that lists more than five claims, cut to five
C21_Witness ==
    /\ ClaimsExtracted
    /\ response = ClaimListReplyOf(ListOf(MaxListed))
    /\ config.agents.max_claims_per_backstory > 5
    /\ Len(claims) = 5

\* C22: for every non-empty backstory extract_claims returns at least one
\* claim, and no empty claim, whatever generate() returned (a list, text
\* without claims, '' or None).
C22_AtLeastOneClaim ==
    (ClaimsExtracted /\ backstory.isstr /\ backstory.text # <<>>) =>
        /\ claims # <<>>
        /\ \A k \in 1..Len(claims) : claims[k] # <<>>

(***************************************************************************)
(* Properties of EvidenceRetriever (SpecRetrieve)                          *)
(***************************************************************************)
\* retrieve_for_claims has returned
RetrievalDone ==
    pc \in {"prosecutor", "score"}

\* C23: when book_id is not in the index, retrieve returns the empty
\* sequence without raising, so every entry of evidence_map is empty and,
\* once retrieve_for_claims has returned, every claim has an entry.
C23_UnknownBookNoEvidence ==
    book_id \notin DOMAIN index =>
        /\ pc # "raised"
        /\ \A q \in DOMAIN evidence_map : evidence_map[q] = <<>>
        /\ RetrievalDone =>
              DOMAIN evidence_map = {claims[k] : k \in 1..Len(claims)}

\* two claims retrieved from a book that is not indexed, while the indexed
\* book has a chunk above the threshold for each of them
C23_Witness ==
    /\ RetrievalDone
    /\ book_id = "other"
    /\ claims = <<ClaimParis, ClaimLondon>>
    /\ evidence_map = [q \in ClaimTexts |-> <<>>]
    /\ \A q \in ClaimTexts :
          \E k \in DOMAIN index["book"].embeddings :
              index["book"].embeddings[k][q]
                  >= config.retrieval.similarity_threshold

\* C24: for a known book, the evidence of a claim consists of chunks of the
\* book with their similarity to the claim, no chunk twice, in order of
\* non-increasing similarity; it has at most top_k entries, none below the
\* threshold; and a chunk at or above the threshold is left out only when
\* top_k chunks at least as similar are in the result.
C24_TopKAboveThreshold ==
    book_id \in DOMAIN index =>
        \A q \in DOMAIN evidence_map :
            LET found == evidence_map[q]
                chunks == index[book_id].chunks
                top_k == config.retrieval.top_k
                threshold == config.retrieval.similarity_threshold
                Sim(k) == index[book_id].embeddings[k][q]
                Is(j, k) ==
                    /\ found[j].chunk_id = chunks[k].chunk_id
                    /\ found[j].book_id = chunks[k].book_id
                    /\ found[j].position = chunks[k].position
                    /\ found[j].similarity = Sim(k)
            IN  /\ Len(found) <= top_k
                /\ \A j \in DOMAIN found : found[j].similarity >= threshold
                /\ \A j \in DOMAIN found : \E k \in DOMAIN chunks : Is(j, k)
                /\ \A j1, j2 \in DOMAIN found :
                      j1 # j2 => found[j1].chunk_id # found[j2].chunk_id
                /\ \A j \in 1..(Len(found) - 1) :
                      found[j].similarity >= found[j + 1].similarity
                /\ \A k \in DOMAIN chunks :
                      (/\ Sim(k) >= threshold
                       /\ \A j \in DOMAIN found : ~Is(j, k))
                          => /\ Len(found) = top_k
                             /\ \A j \in DOMAIN found :
                                   found[j].similarity >= Sim(k)

\* a book of three chunks, top_k 2: the result is the last chunk (0.9) and
\* then the first (0.6, equal to the threshold), and the chunk in between
\* (0.3) is left out
C24_Witness ==
    /\ book_id = "book"
    /\ config.retrieval.top_k = 2
    /\ Len(index["book"].chunks) = 3
    /\ ClaimParis \in DOMAIN evidence_map
    /\ Len(evidence_map[ClaimParis]) = 2
    /\ evidence_map[ClaimParis][1].position = 2
    /\ evidence_map[ClaimParis][1].similarity = (9 * ConfScale) \div 10
    /\ evidence_map[ClaimParis][2].position = 0
    /\ evidence_map[ClaimParis][2].similarity
           = config.retrieval.similarity_threshold

(***************************************************************************)
(* Properties of GroqClient.generate and OllamaClient.generate (SpecClient) *)
(***************************************************************************)
\* generate has returned
Generated ==
    pc = "generated"

\* the requests that failed: an exception was raised inside the try
FailedKinds ==
    {"error", "timeout", "no_content", "bad_json"}

\* a text of RawTexts without the white space around it
StrippedText(text) ==
    IF text = RawReply THEN ClaimListReply ELSE <<>>

\* C25: generate makes at most max_retries requests, makes a request only
\* after every earlier one failed, returns the text (stripped) of the first
\* request that succeeds, and returns None, without raising, when all
\* max_retries requests failed.
C25_BoundedRetries ==
    /\ pc # "raised"
    /\ Len(transport) <= config.llm.max_retries
    /\ \A k \in 1..(Len(transport) - 1) : transport[k].kind \in FailedKinds
    /\ Generated =>
          /\ (/\ transport # <<>>
              /\ transport[Len(transport)].kind = "text")
                 => response
                        = Text(StrippedText(transport[Len(transport)].text))
          /\ (\A k \in DOMAIN transport : transport[k].kind \in FailedKinds)
                 => /\ response = None
                    /\ Len(transport) = config.llm.max_retries

\* three attempts allowed: an exception, a timeout, then a text
C25_Witness ==
    /\ Generated
    /\ config.llm.max_retries = 3
    /\ Len(transport) = 3
    /\ transport[1].kind = "error"
    /\ transport[2].kind = "timeout"
    /\ transport[3] = Outcome("text", RawReply)
    /\ response = Text(ClaimListReply)

(***************************************************************************)
(* Properties of the batch loop of run_inference.main (SpecBatch)          *)
(***************************************************************************)
\* main has ended: the loop is over, or an exception has left it
BatchEnded ==
    pc \in {"finished", "aborted"}

\* the labels of the rows of Rows with a str label, by id: 'consistent'
\* and ' Consistent ' are 1, 'contradict' is 0
TrueLabelOfRow(id) ==
    IF id = 2 THEN 0 ELSE 1

\* the record that the except branch appends for the current row
ErrorRecordOfRow ==
    [id         |-> val_df[idx].id,
     book_name  |-> val_df[idx].book_name,
     character  |-> val_df[idx].char,
     prediction |-> 0,
     true_label |-> TrueLabelOfRow(val_df[idx].id),
     rationale  |-> [text |-> MsgErrorDuringInference, args |-> <<error>>]]

\* C26: an exception raised while a row is processed becomes a record with
\* prediction 0 whose rationale is 'Error during inference: ' followed by
\* the error text, and the loop goes on with the next row; the results
\* are one record per row read so far, in the order of the rows, and one
\* record per row of val_df when main has ended: no row aborts the run.
C26_OneResultPerRow ==
    /\ [](/\ Len(results) = idx - 1
          /\ Len(results) <= Len(val_df)
          /\ \A k \in 1..Len(results) : results[k].id = val_df[k].id
          /\ BatchEnded => Len(results) = Len(val_df))
    /\ [][pc = "raised" =>
             /\ results' = Append(results, ErrorRecordOfRow)
             /\ pc' = IF idx < Len(val_df) THEN "row" ELSE "finished"]_vars

(***************************************************************************)
(* Ranges of the judgments of a deliberation (SpecDebate)                  *)
(***************************************************************************)
\* the three judgments of a deliberation
JudgmentsOf(delib) ==
    {delib.prosecutor, delib.defense, delib.final}

\* 'far too late', the reasoning of the reply whose confidence is 150
ReasonTooLate ==
    <<"f","a","r"," ","t","o","o"," ","l","a","t","e">>

\* C27: in every deliberation that deliberate_on_backstory appends, the
\* prosecutor, defense and final judgments have one of the three verdicts
\* and a confidence between 0.0 and 1.0, whatever the generator returned
\* (well-formed, malformed, empty or missing replies).
C27_JudgmentsInRange ==
    \A k \in DOMAIN deliberations :
        \A judgment \in JudgmentsOf(deliberations[k]) :
            /\ judgment.verdict \in {"CONSISTENT", "CONTRADICTORY", "INSUFFICIENT"}
            /\ ~Less(judgment.confidence, Zero)
            /\ ~Less(One, judgment.confidence)

\* the prosecutor's reply gave the confidence -0.5, which is clamped to 0.0,
\* the defense's generation call failed, and the judge's reply gave the
\* confidence 150, which is clamped to 1.0
C27_Witness ==
    /\ Len(deliberations) = 1
    /\ llm_calls = <<"claim_extraction", "prosecutor", "defense", "judge">>
    /\ deliberations[1].prosecutor.verdict = "CONSISTENT"
    /\ deliberations[1].prosecutor.confidence = Zero
    /\ deliberations[1].prosecutor.reasoning = <<"n","o"," ","d","o","u","b","t">>
    /\ deliberations[1].defense.reasoning = MsgCallFailed
    /\ deliberations[1].final.verdict = "CONTRADICTORY"
    /\ deliberations[1].final.confidence = One
    /\ deliberations[1].final.reasoning = ReasonTooLate

(***************************************************************************)
(* Order of the steps of deliberate_on_backstory (SpecPipeline)            *)
(***************************************************************************)
DebatePositions ==
    {"prosecutor", "defense", "judge", "append"}

\* the texts at the first n positions of the claim list
ClaimTextsUpTo(n) ==
    {claims[k] : k \in 1..n}

\* a full debate of two claims: the calls of the run, in order
CallsOfTwoDebates ==
    <<"claim_extraction", "prosecutor", "defense", "judge",
      "prosecutor", "defense", "judge">>

\* C28: in a run of deliberate_on_backstory the claim-extraction call is the
\* first call and the only one of its kind; no step of the debate happens
\* before every claim has its evidence; the claims are debated in the order
\* of extraction, each by the prosecutor step, then the defense step, then
\* the judge step; claim i + 1 is not started before the deliberation of
\* claim i is appended, and a deliberation is appended only right after its
\* judge step.
C28_StrictSequence ==
    /\ [](/\ pc = "extract_claims"
                => /\ llm_calls = <<>>
                   /\ DOMAIN evidence_map = {}
                   /\ deliberations = <<>>
          /\ pc \in {"retrieve", "score"} \cup DebatePositions
                => /\ llm_calls # <<>>
                   /\ llm_calls[1] = "claim_extraction"
                   /\ \A k \in 2..Len(llm_calls) :
                          llm_calls[k] # "claim_extraction"
          /\ pc = "retrieve"
                => /\ Len(llm_calls) = 1
                   /\ deliberations = <<>>
                   /\ DOMAIN evidence_map = ClaimTextsUpTo(i - 1)
          /\ pc \in DebatePositions
                => /\ DOMAIN evidence_map = ClaimTextsUpTo(Len(claims))
                   /\ i \in DOMAIN claims
                   /\ Len(deliberations) = i - 1
          /\ pc = "score" => Len(deliberations) = Len(claims)
          /\ \A k \in DOMAIN deliberations : deliberations[k].claim = claims[k])
    /\ [][/\ pc = "extract_claims" => pc' \in {"retrieve", "raised"}
          /\ pc = "retrieve"
                => \/ pc' = "retrieve" /\ i' = i + 1 /\ i <= Len(claims)
                   \/ /\ i = Len(claims) + 1
                      /\ i' = 1
                      /\ pc' = IF claims = <<>> THEN "score" ELSE "prosecutor"
          /\ pc = "prosecutor"
                => /\ pc' = "defense"
                   /\ i' = i
                   /\ llm_calls' \in {llm_calls, Append(llm_calls, "prosecutor")}
          /\ pc = "defense"
                => /\ pc' = "judge"
                   /\ i' = i
                   /\ llm_calls' \in {llm_calls, Append(llm_calls, "defense")}
          /\ pc = "judge"
                => /\ pc' = "append"
                   /\ i' = i
                   /\ llm_calls' \in {llm_calls, Append(llm_calls, "judge")}
          /\ pc = "append"
                => /\ deliberations' =
                          Append(deliberations,
                                 [claim      |-> claims[i],
                                  prosecutor |-> prosecutor_judgment,
                                  defense    |-> defense_judgment,
                                  final      |-> final_judgment])
                   /\ i' = i + 1
                   /\ pc' = IF i < Len(claims) THEN "prosecutor" ELSE "score"
                   /\ llm_calls' = llm_calls
          /\ deliberations' # deliberations => pc = "append"
          /\ evidence_map' # evidence_map => pc = "retrieve"
          /\ claims' # claims => pc = "extract_claims"]_vars

\* two different claims, each with evidence, each debated by the
\* prosecutor, the defense and the judge, in this order
C28_Witness ==
    /\ pc = "score"
    /\ Len(claims) = 2
    /\ claims[1] # claims[2]
    /\ llm_calls = CallsOfTwoDebates
    /\ Len(deliberations) = 2
    /\ deliberations[1].claim = claims[1]
    /\ deliberations[2].claim = claims[2]

(***************************************************************************)
(* Claims with the same text (SpecPipeline)                                *)
(***************************************************************************)
\* the claim list has the same text at two positions
HasDuplicateText ==
    \E a, b \in DOMAIN claims : a < b /\ claims[a] = claims[b]

\* the chunk ids of an evidence list, in order
ChunkIds(evidence) ==
    [k \in DOMAIN evidence |-> evidence[k].chunk_id]

\* C29: when the claim list has the same text at two positions, the
\* evidence map has one entry for that text (fewer entries than claims) and
\* an entry for the text of every position; the run still gives one
\* deliberation per position, in order, and the prosecutor and the defense
\* of each of them worked on the entry of its text.
C29_DuplicateTextOneEvidenceEntry ==
    HasDuplicateText =>
        /\ pc \in DebatePositions \cup {"score", "done"}
              => /\ Cardinality(DOMAIN evidence_map) < Len(claims)
                 /\ \A k \in DOMAIN claims : claims[k] \in DOMAIN evidence_map
        /\ pc \in {"score", "done"} => Len(deliberations) = Len(claims)
        /\ \A k \in DOMAIN deliberations :
              /\ deliberations[k].claim = claims[k]
              /\ \A agent \in {"prosecutor", "defense"} :
                    LET evidence == evidence_map[claims[k]]
                        judgment == deliberations[k][agent]
                    IN  IF evidence = <<>>
                        THEN judgment.reasoning = MsgNoEvidence
                        ELSE /\ judgment.reasoning # MsgNoEvidence
                             /\ judgment.evidence_used
                                    \in {<<>>, ChunkIds(evidence)}

\* the reply lists the Paris claim twice: one evidence entry, two
\* deliberations with different final verdicts, both on the chunks of that
\* entry
C29_Witness ==
    /\ pc = "score"
    /\ claims = <<ClaimParis, ClaimParis>>
    /\ DOMAIN evidence_map = {ClaimParis}
    /\ evidence_map[ClaimParis] # <<>>
    /\ Len(deliberations) = 2
    /\ deliberations[1].prosecutor.evidence_used
           = ChunkIds(evidence_map[ClaimParis])
    /\ deliberations[2].prosecutor.evidence_used
           = ChunkIds(evidence_map[ClaimParis])
    /\ deliberations[1].final.verdict # deliberations[2].final.verdict

(***************************************************************************)
(* Frame of a deliberation run (SpecPipeline)                              *)
(***************************************************************************)
\* the chunks of the index carry no similarity
IndexChunksAsBuilt ==
    \A b \in DOMAIN index :
        \A k \in DOMAIN index[b].chunks :
            DOMAIN index[b].chunks[k] = {"book_id", "chunk_id", "position"}

\* C30: no step of a run changes the index (chunks and embeddings), and the
\* chunks of the index never get a similarity: retrieve writes it to a
\* copy; the judge step leaves the prosecutor's and the defense's judgment
\* as they were; the claim list is not changed after the extraction; and
\* the deliberations appended so far stay as they are while later claims
\* are processed.
C30_NoMutationAfterConstruction ==
    /\ []IndexChunksAsBuilt
    /\ [][/\ index' = index
          /\ pc = "judge"
                => /\ prosecutor_judgment' = prosecutor_judgment
                   /\ defense_judgment' = defense_judgment
          /\ pc # "extract_claims" => claims' = claims
          /\ /\ Len(deliberations') >= Len(deliberations)
             /\ \A k \in DOMAIN deliberations :
                    deliberations'[k] = deliberations[k]]_vars

\* the retrieval gave the first claim a chunk with its similarity while the
\* chunk of the index has none, the judge was called for both claims, and
\* the first deliberation is still the one appended before the second claim
\* was processed
C30_Witness ==
    /\ pc = "score"
    /\ Len(claims) = 2
    /\ Len(deliberations) = 2
    /\ evidence_map[claims[1]] # <<>>
    /\ evidence_map[claims[1]][1].similarity = (9 * ConfScale) \div 10
    /\ evidence_map[claims[1]][1].chunk_id = index["book"].chunks[2].chunk_id
    /\ "similarity" \notin DOMAIN index["book"].chunks[2]
    /\ llm_calls = CallsOfTwoDebates
    /\ deliberations[1].final # deliberations[1].prosecutor
    /\ deliberations[1].final # deliberations[2].final

(***************************************************************************)
(* The parsed list of extract_claims (SpecExtract)                         *)
(***************************************************************************)
\* 'Ann met Tom now', 15 characters
ItemOf15 ==
    <<"A","n","n"," ","m","e","t"," ","T","o","m"," ","n","o","w">>

\* the second of all he left Paris for good, behind the superscript two
\* that lstrip leaves in place
ItemSuperscript ==
    <<SuperscriptTwo>> \o <<"n","d"," ","o","f"," ","a","l","l"," ","h","e"," ","l","e","f","t"," ","P","a","r","i","s"," ","f","o","r"," ","g","o","o","d">>

\* the list items of each reply of ExtractOutputs, in the order of the
\* reply, without numbering, bullets and surrounding whitespace
Candidates(text) ==
    IF text = ReplyNoList THEN <<>>
    ELSE IF text = ReplyShortItems
    THEN <<<<"T","o","m">>, <<"H","e"," ","l","e","f","t">>>>
    ELSE IF text = ReplyBullets
    THEN <<ClaimParis, ClaimLondon, ItemSuperscript>>
    ELSE IF text = ReplyBoundary
    THEN <<ItemOf15, ItemOf15 \o <<".">>, SubSeq(ItemOf15, 1, 14)>>
    ELSE IF text = ReplyOtherScripts
    THEN <<<<"U+00B3"," ">> \o ClaimLondon, ClaimParis>>
    ELSE IF text = ClaimListReplyOf(ListOf(1)).text THEN ListOf(1)
    ELSE IF text = ClaimListReplyOf(ListOf(2)).text THEN ListOf(2)
    ELSE ListOf(MaxListed)

\* the first n of a list
FirstOf(list, n) ==
    SubSeq(list, 1, IF n < Len(list) THEN n ELSE Len(list))

\* what extract_claims returns for a reply whose list items of at least
\* min_len characters are the claims
ClaimsKeeping(min_len) ==
    LET kept == SelectSeq(Candidates(response.text),
                          LAMBDA c : Len(c) >= min_len)
    IN  IF kept = <<>>
        THEN FirstOf(<<FirstOf(backstory.text, 200)>>,
                     config.agents.max_claims_per_backstory)
        ELSE FirstOf(FirstOf(kept, 5), config.agents.max_claims_per_backstory)

\* the reply was not empty and extract_claims returned
ParsedReply ==
    ClaimsExtracted /\ response.some /\ response.text # <<>>

\* C31 as stated: the claims are the list items of the reply (the lines
\* that start with a digit, '-' or the bullet, without their numbering and
\* surrounding whitespace), in the order of the reply, and only the items
\* shorter than 15 characters are discarded.
C31_DiscardsShorterThan15 ==
    ParsedReply => claims = ClaimsKeeping(15)

\* C31: the claims are the list items of the reply (the lines that start
\* with a digit, '-' or the bullet, without their numbering and surrounding
\* whitespace), in the order of the reply; the items of 15 characters or
\* fewer are discarded, every longer item is kept up to max_claims.
C31_DiscardsUpTo15 ==
    ParsedReply => claims = ClaimsKeeping(16)

\* of the items of 15, 16 and 14 characters only the one of 16 is a claim,
\* and the line that is no list item is none
C31_Witness ==
    /\ ClaimsExtracted
    /\ response = Text(ReplyBoundary)
    /\ claims = <<ItemOf15 \o <<".">>>>

(***************************************************************************)
(* The deterministic rules of the judge are disjoint (SpecDebate)          *)
(***************************************************************************)
\* the preconditions of the three rules, on the judgments of the state
RulePrecondition(rule) ==
    IF rule = 1
    THEN /\ prosecutor_judgment.verdict = "INSUFFICIENT"
         /\ defense_judgment.verdict = "INSUFFICIENT"
    ELSE IF rule = 2
    THEN /\ prosecutor_judgment.verdict = "CONTRADICTORY"
         /\ Less(Thousandths(700), prosecutor_judgment.confidence)
    ELSE /\ prosecutor_judgment.verdict = "CONSISTENT"
         /\ defense_judgment.verdict = "CONSISTENT"

\* C32: for every pair of judgments the judge receives, at most one of the
\* three deterministic rules applies (both INSUFFICIENT; prosecutor
\* CONTRADICTORY above 0.7; both CONSISTENT), and the final judgment is the
\* one that deliberate gives with its rules tested in any other order.
C32_RulesDisjoint ==
    JudgeReturned =>
        /\ \A rule \in 1..3 :
               RuleApplies(rule, prosecutor_judgment, defense_judgment)
                   <=> RulePrecondition(rule)
        /\ \A a, b \in 1..3 :
               (a # b /\ RulePrecondition(a)) => ~RulePrecondition(b)
        /\ \A order \in RuleOrders :
               deliberate_in_order(order, claims[i], prosecutor_judgment,
                                   defense_judgment, response).judgment
                   = final_judgment

\* the prosecutor is CONTRADICTORY above 0.7 and the defense CONSISTENT:
\* the second rule applies, and a third rule that looked at the defense
\* only would apply as well
C32_Witness ==
    /\ JudgeReturned
    /\ RulePrecondition(2)
    /\ defense_judgment.verdict = "CONSISTENT"
    /\ Less(prosecutor_judgment.confidence, defense_judgment.confidence)
    /\ final_judgment.verdict = "CONTRADICTORY"

(***************************************************************************)
(* From the prosecutor's judgment to the label (SpecPipeline)              *)
(***************************************************************************)
\* compute_score has returned for the run
RunScored ==
    pc = "done"

\* the prosecutor of deliberation k returned CONTRADICTORY above 0.7
StrongProsecutorAt(k) ==
    /\ deliberations[k].prosecutor.verdict = "CONTRADICTORY"
    /\ Less(Thousandths(700), deliberations[k].prosecutor.confidence)

\* C33: when the prosecutor returned CONTRADICTORY with a confidence above
\* 0.7 for at least one claim of the run, compute_score gives the label 0
\* for the deliberations of the run, whatever the defense and the judge's
\* generation call gave for that claim and whatever the other claims got.
C33_StrongProsecutorGivesLabel0 ==
    (RunScored /\ \E k \in DOMAIN deliberations : StrongProsecutorAt(k))
        => score_result.label = 0

\* the prosecutor is strong on the first claim against a CONSISTENT
\* defense, the second claim is CONSISTENT on both sides, and the label is
\* 0 for one hard contradiction
C33_Witness ==
    /\ RunScored
    /\ Len(deliberations) = 2
    /\ StrongProsecutorAt(1)
    /\ deliberations[1].defense.verdict = "CONSISTENT"
    /\ deliberations[2].prosecutor.verdict = "CONSISTENT"
    /\ deliberations[2].final.verdict = "CONSISTENT"
    /\ score_result.label = 0
    /\ score_result.rationale.args = <<1>>

(***************************************************************************)
(* A run without a generator (SpecOutage)                                  *)
(***************************************************************************)
\* the threshold of the configuration is below 1.0
ThresholdBelowOne ==
    config.scoring.insufficient_evidence_threshold < ThresholdScale

\* C34: when every generation call of a run returns None, every
\* deliberation has the final verdict INSUFFICIENT and the judge makes no
\* arbitration call (the calls are one claim extraction and at most one
\* prosecutor and one defense call per claim); compute_score then returns
\* the label 0 when insufficient_evidence_threshold is below 1, also when
\* the list of deliberations is empty.
C34_OutageGivesLabel0 ==
    /\ \A k \in DOMAIN deliberations :
           deliberations[k].final.verdict = "INSUFFICIENT"
    /\ \A k \in DOMAIN llm_calls : llm_calls[k] # "judge"
    /\ pc \in {"append", "score", "done"}
           => final_judgment = Unset \/ final_judgment.verdict = "INSUFFICIENT"
    /\ (pc = "done" /\ ThresholdBelowOne) => score_result.label = 0

\* two claims from the sentences of the backstory, evidence for both, both
\* agents called and failing, no judge call, label 0
C34_Witness ==
    /\ pc = "done"
    /\ ThresholdBelowOne
    /\ Len(deliberations) = 2
    /\ llm_calls = <<"claim_extraction", "prosecutor", "defense",
                     "prosecutor", "defense">>
    /\ deliberations[2].prosecutor.reasoning = MsgCallFailed
    /\ deliberations[2].final.verdict = "INSUFFICIENT"
    /\ score_result.label = 0

(***************************************************************************)
(* Number of generation calls and termination of a run (SpecPipelineFair)  *)
(***************************************************************************)
\* the number of calls of a task type made so far
CallCount(task_type) ==
    Cardinality({k \in DOMAIN llm_calls : llm_calls[k] = task_type})

\* the number of claims whose step of the given position has been taken
StepsTaken(position) ==
    IF pc \in {"score", "done"} THEN Len(claims)
    ELSE IF pc \notin DebatePositions THEN 0
    ELSE IF position = "prosecutor"
    THEN (IF pc = "prosecutor" THEN i - 1 ELSE i)
    ELSE IF position = "defense"
    THEN (IF pc \in {"prosecutor", "defense"} THEN i - 1 ELSE i)
    ELSE (IF pc = "append" THEN i ELSE i - 1)

\* deliberate_on_backstory has returned or raised
RunEnded ==
    pc \in {"score", "done", "raised"}

\* how far a run is: the part of the code it is in, then the index of the
\* loop, then the step within one pass of the debate loop
Progress ==
    LET part == IF pc = "extract_claims" THEN 0
                ELSE IF pc = "retrieve" THEN 1
                ELSE IF pc \in DebatePositions THEN 2
                ELSE IF pc = "score" THEN 3
                ELSE 4
        step == IF pc = "defense" THEN 1
                ELSE IF pc = "judge" THEN 2
                ELSE IF pc = "append" THEN 3
                ELSE 0
    IN  1000 * part + 10 * i + step

\* C35: a run over n claims makes at most 1 + 3n generation calls: one
\* claim_extraction call, and for each claim at most one prosecutor, one
\* defense and one judge call; the judge call is made exactly when none of
\* the three deterministic rules applies to the two judgments; every step
\* takes the run further through its two loops, whose index never passes
\* the number of claims by more than one; and every run ends, given that
\* each call returns.
C35_BoundedCallsAndTermination ==
    /\ [](/\ CallCount("claim_extraction")
                 = (IF pc = "extract_claims" THEN 0 ELSE 1)
          /\ CallCount("prosecutor") <= StepsTaken("prosecutor")
          /\ CallCount("defense") <= StepsTaken("defense")
          /\ CallCount("judge") <= StepsTaken("judge")
          /\ Len(llm_calls) <= 1 + 3 * Len(claims)
          /\ \A k \in DOMAIN llm_calls :
                 llm_calls[k] \in {"claim_extraction", "prosecutor",
                                   "defense", "judge"})
    /\ [][pc = "judge" =>
             IF NoDeterministicRule
             THEN llm_calls' = Append(llm_calls, "judge")
             ELSE llm_calls' = llm_calls]_vars
    /\ [](i \in 1..(Len(claims) + 1))
    /\ [][Progress' > Progress]_vars
    /\ <>RunEnded

\* two claims with every call made: seven calls, the bound 1 + 3n
C35_Witness ==
    /\ pc = "done"
    /\ Len(claims) = 2
    /\ Len(llm_calls) = 1 + 3 * Len(claims)
    /\ CallCount("claim_extraction") = 1
    /\ CallCount("judge") = 2

====
